---- MODULE Spec2Model ----
(***************************************************************************)
(* A model of the Rmd -> PreTeXt converters of PreTeXtBooks/rbook.          *)
(*                                                                         *)
(* Text is a sequence of one-character strings, so that every regular      *)
(* expression and every str.replace of the converters is computed on the   *)
(* characters themselves.  An output line (one self.output.append call) is *)
(* a tuple <<template, value, ...>> naming the f-string template and the   *)
(* values interpolated into it.                                            *)
(***************************************************************************)
EXTENDS Integers, Sequences, FiniteSets, TLC

VARIABLES
    output,            \* self.output: the emitted lines
    in_code_block,     \* self.in_code_block
    code_block_lines,  \* self.code_block_lines
    code_block_params, \* self.code_block_params: a set of <<key, value>> pairs
    in_paragraph,      \* self.in_paragraph
    paragraph_lines,   \* self.paragraph_lines
    in_list,           \* self.in_list
    list_lines,        \* self.list_lines
    list_type,         \* self.list_type
    in_blockquote,     \* self.in_blockquote
    blockquote_lines,  \* self.blockquote_lines
    section_stack,     \* self.section_stack
    line,              \* the argument of the last process_line / loop iteration
    nlines,            \* how many input lines have been consumed
    pc,                \* "run" while lines are read, "done" after convert's tail
    inp,               \* the argument of a pure text function under check
    res                \* its result

conv == <<output, in_code_block, code_block_lines, code_block_params,
          in_paragraph, paragraph_lines, in_list, list_lines, list_type,
          in_blockquote, blockquote_lines, section_stack>>
drv == <<line, nlines, pc>>
fun == <<inp, res>>
vars == <<conv, drv, fun>>

\* Python's None where a text may stand; no text equals it, a text holding
\* one-character elements only
None == <<"None">>

\* Python's None as the value of list_type
NoListType == "None"

\* the backtick character (a string literal cannot hold one)
BT == "BACKTICK"

(***************************************************************************)
(* Strings                                                                 *)
(***************************************************************************)

\* s[i:i+len(p)] == p
StartsAt(t, i, p) ==
    /\ i >= 1
    /\ i + Len(p) - 1 <= Len(t)
    /\ SubSeq(t, i, i + Len(p) - 1) = p

\* str.startswith
StartsWith(t, p) == StartsAt(t, 1, p)

\* the least element of a set of indices, 0 when the set is empty
First(S) == IF S = {} THEN 0 ELSE CHOOSE j \in S : \A k \in S : j <= k

\* the first index after i, up to n, at which a match starts, n + 1 when there
\* is none: End(k) is the end of the match that starts at k, 0 for no match
NoneIs(k, n) == IF k = 0 THEN n + 1 ELSE k
NextStart(End(_), i, n) == NoneIs(First({k \in (i + 1)..n : End(k) > 0}), n)

\* the first index >= i at which p occurs in t, 0 when there is none
Find(t, p, i) == First({j \in i..Len(t) : StartsAt(t, j, p)})

\* the first index >= i whose character is in the set X, 0 when there is none
FindIn(t, X, i) == First({j \in i..Len(t) : t[j] \in X})

\* p in t
Contains(t, p) == Find(t, p, 1) > 0

RECURSIVE ReplaceFrom(_, _, _, _)
RECURSIVE ReplaceAt(_, _, _, _, _)
ReplaceFrom(t, i, p, r) == ReplaceAt(t, i, p, r, Find(t, p, i))

\* the replacement from i on, given the start j of the next occurrence
ReplaceAt(t, i, p, r, j) ==
    IF j = 0 THEN SubSeq(t, i, Len(t))
    ELSE SubSeq(t, i, j - 1) \o r \o ReplaceFrom(t, j + Len(p), p, r)

\* str.replace(p, r), p not empty
Replace(t, p, r) == ReplaceFrom(t, 1, p, r)

WhiteSpace == {" ", "\t", "\n"}

RECURSIVE LStrip(_)
LStrip(t) ==
    IF t # <<>> /\ t[1] \in WhiteSpace THEN LStrip(Tail(t)) ELSE t

RECURSIVE RStrip(_)
RStrip(t) ==
    IF t # <<>> /\ t[Len(t)] \in WhiteSpace
    THEN RStrip(SubSeq(t, 1, Len(t) - 1)) ELSE t

\* str.strip()
Strip(t) == LStrip(RStrip(t))

\* sep.join(parts)
RECURSIVE Join(_, _)
Join(sep, parts) ==
    IF parts = <<>> THEN <<>>
    ELSE IF Len(parts) = 1 THEN parts[1]
    ELSE parts[1] \o sep \o Join(sep, Tail(parts))

DigitChar == <<"0", "1", "2", "3", "4", "5", "6", "7", "8", "9">>
DigitSet == {DigitChar[k] : k \in 1..10}

\* str(n) for n >= 0
RECURSIVE Str(_)
Str(n) ==
    IF n < 10 THEN <<DigitChar[n + 1]>>
    ELSE Str(n \div 10) \o <<DigitChar[(n % 10) + 1]>>

Letters ==
    {"a", "b", "c", "d", "e", "f", "g", "h", "i", "j", "k", "l", "m", "n",
     "o", "p", "q", "r", "s", "t", "u", "v", "w", "x", "y", "z",
     "A", "B", "C", "D", "E", "F", "G", "H", "I", "J", "K", "L", "M", "N",
     "O", "P", "Q", "R", "S", "T", "U", "V", "W", "X", "Y", "Z"}

\* the regular expression class \w
IsWord(c) == c \in Letters \cup DigitSet \cup {"_"}

(***************************************************************************)
(* re.sub for the two pattern shapes the converters use                    *)
(***************************************************************************)

\* the content t[from..j-1] of a lazy match whose close is first found at j
LazyEndAt(t, from, j, dotall) ==
    IF j = 0 THEN 0
    ELSE IF ~dotall /\ \E k \in from..(j - 1) : t[k] = "\n" THEN 0
    ELSE j

\* A match of  open (.+?) close  starting at i: the index where close
\* starts, 0 when there is no match.  Without DOTALL the content holds no
\* newline.
LazyEnd(t, i, open, close, dotall) ==
    IF ~StartsAt(t, i, open) THEN 0
    ELSE LazyEndAt(t, i + Len(open), Find(t, close, i + Len(open) + 1), dotall)

\* the content t[from..j-1] of a class match, j the first character of X
ClassEndAt(t, from, j, close) ==
    IF j > from /\ StartsAt(t, j, close) THEN j ELSE 0

\* A match of  open ([^X]+) close  starting at i, where close starts with a
\* character of X: the index where close starts, 0 when there is no match.
ClassEnd(t, i, open, X, close) ==
    IF ~StartsAt(t, i, open) THEN 0
    ELSE ClassEndAt(t, i + Len(open), FindIn(t, X, i + Len(open)), close)

\* re.sub(open(.+?)close, ro \1 rc, t)
RECURSIVE SubLazy(_, _, _, _, _, _, _)
RECURSIVE SubLazyAt(_, _, _, _, _, _, _, _)
RECURSIVE SubLazyFrom(_, _, _, _, _, _, _, _)
SubLazy(t, i, open, close, dotall, ro, rc) ==
    IF i > Len(t) THEN <<>>
    ELSE SubLazyAt(t, i, open, close, dotall, ro, rc,
                   LazyEnd(t, i, open, close, dotall))

\* the substitution from i on, given the end j of the match at i
SubLazyAt(t, i, open, close, dotall, ro, rc, j) ==
    IF j > 0
    THEN ro \o SubSeq(t, i + Len(open), j - 1) \o rc
            \o SubLazy(t, j + Len(close), open, close, dotall, ro, rc)
    ELSE SubLazyFrom(t, i, open, close, dotall, ro, rc,
                     NextStart(LAMBDA k : LazyEnd(t, k, open, close, dotall), i, Len(t)))

\* no match at i: the characters up to the next start n of a match are kept
SubLazyFrom(t, i, open, close, dotall, ro, rc, n) ==
    SubSeq(t, i, n - 1) \o SubLazy(t, n, open, close, dotall, ro, rc)

\* re.sub(open([^X]+)close, ro \1 rc, t)
RECURSIVE SubClass(_, _, _, _, _, _, _)
RECURSIVE SubClassAt(_, _, _, _, _, _, _, _)
RECURSIVE SubClassFrom(_, _, _, _, _, _, _, _)
SubClass(t, i, open, X, close, ro, rc) ==
    IF i > Len(t) THEN <<>>
    ELSE SubClassAt(t, i, open, X, close, ro, rc, ClassEnd(t, i, open, X, close))

\* the substitution from i on, given the end j of the match at i
SubClassAt(t, i, open, X, close, ro, rc, j) ==
    IF j > 0
    THEN ro \o SubSeq(t, i + Len(open), j - 1) \o rc
            \o SubClass(t, j + Len(close), open, X, close, ro, rc)
    ELSE SubClassFrom(t, i, open, X, close, ro, rc,
                      NextStart(LAMBDA k : ClassEnd(t, k, open, X, close), i, Len(t)))

\* no match at i: the characters up to the next start n of a match are kept
SubClassFrom(t, i, open, X, close, ro, rc, n) ==
    SubSeq(t, i, n - 1) \o SubClass(t, n, open, X, close, ro, rc)

(***************************************************************************)
(* convert_ch4_statistical_theory.py: the inline formatter                 *)
(***************************************************************************)

S_esc_dollar == <<"\\", "$">>
S_LITERALDOLLAR ==
    <<"~", "~", "~", "L", "I", "T", "E", "R", "A", "L", "D", "O", "L", "L",
      "A", "R", "~", "~", "~">>
S_tildes == <<"~", "~", "~">>
S_begin == <<"\\", "b", "e", "g", "i", "n">>
S_amp == <<"&", "a", "m", "p", ";">>
S_lt == <<"&", "l", "t", ";">>
S_gt == <<"&", "g", "t", ";">>
S_em == <<"<", "e", "m", ">">>
S_em_end == <<"<", "/", "e", "m", ">">>
S_m == <<"<", "m", ">">>
S_m_end == <<"<", "/", "m", ">">>
S_me == <<"<", "m", "e", ">">>
S_me_end == <<"<", "/", "m", "e", ">">>
S_cdata == <<"<", "!", "[", "C", "D", "A", "T", "A", "[">>
S_cdata_end == <<"]", "]", ">">>
S_c == <<"<", "c", ">">>
S_c_end == <<"<", "/", "c", ">">>
S_fn == <<"<", "f", "n", ">">>
S_fn_end == <<"<", "/", "f", "n", ">">>
S_ref == <<"\\", "@", "r", "e", "f", "(">>
S_xref == <<"<", "x", "r", "e", "f", " ", "r", "e", "f", "=", "\"">>
S_xref_end == <<"\"", "/", ">">>

\* f"~~~CODE{n}~~~", f"~~~DISPMATH{n}~~~", f"~~~MATH{n}~~~"
PhCode(n) == <<"~", "~", "~", "C", "O", "D", "E">> \o Str(n) \o S_tildes
PhDispMath(n) ==
    <<"~", "~", "~", "D", "I", "S", "P", "M", "A", "T", "H">> \o Str(n) \o S_tildes
PhMath(n) == <<"~", "~", "~", "M", "A", "T", "H">> \o Str(n) \o S_tildes

escape_xml_text(text) ==
    Replace(Replace(Replace(text, <<"&">>, S_amp), <<"<">>, S_lt), <<">">>, S_gt)

NeedsCdata(content) ==
    Contains(content, <<"&">>) \/ Contains(content, <<"<">>) \/ Contains(content, <<">">>)

\* the string save_display_math stores for the stripped content
DisplayMathNodeOf(content) ==
    IF NeedsCdata(content) \/ Contains(content, S_begin)
    THEN S_me \o S_cdata \o content \o S_cdata_end \o S_me_end
    ELSE S_me \o content \o S_me_end

\* the string save_display_math stores for a captured group
DisplayMathNode(group) == DisplayMathNodeOf(Strip(group))

\* the string save_inline_math stores for a captured group
InlineMathNode(content) ==
    IF NeedsCdata(content)
    THEN S_m \o S_cdata \o content \o S_cdata_end \o S_m_end
    ELSE S_m \o content \o S_m_end

\* the result r of a substitution that saves parts, with head put before
\* its text
Prepend(head, r) == [text |-> head \o r.text, parts |-> r.parts]

\* re.sub(r'`([^`]+)`', save_code, text): the new text and code_parts
RECURSIVE save_code(_, _, _)
RECURSIVE save_code_at(_, _, _, _)
RECURSIVE save_code_from(_, _, _, _)
save_code(t, i, parts) ==
    IF i > Len(t) THEN [text |-> <<>>, parts |-> parts]
    ELSE save_code_at(t, i, parts, ClassEnd(t, i, <<BT>>, {BT}, <<BT>>))

\* the substitution from i on, given the end j of the match at i
save_code_at(t, i, parts, j) ==
    IF j > 0
    THEN Prepend(PhCode(Len(parts)),
                 save_code(t, j + 1, Append(parts, SubSeq(t, i + 1, j - 1))))
    ELSE save_code_from(t, i, parts,
        NextStart(LAMBDA k : ClassEnd(t, k, <<BT>>, {BT}, <<BT>>), i, Len(t)))

\* no match at i: the characters up to the next start n of a match are kept
save_code_from(t, i, parts, n) ==
    Prepend(SubSeq(t, i, n - 1), save_code(t, n, parts))

\* re.sub(r'\$\$(.+?)\$\$', save_display_math, text, flags=re.DOTALL)
RECURSIVE save_display_math(_, _, _)
RECURSIVE save_display_math_at(_, _, _, _)
RECURSIVE save_display_math_from(_, _, _, _)
save_display_math(t, i, parts) ==
    IF i > Len(t) THEN [text |-> <<>>, parts |-> parts]
    ELSE save_display_math_at(t, i, parts,
                              LazyEnd(t, i, <<"$", "$">>, <<"$", "$">>, TRUE))

\* the substitution from i on, given the end j of the match at i
save_display_math_at(t, i, parts, j) ==
    IF j > 0
    THEN Prepend(PhDispMath(Len(parts)),
                 save_display_math(t, j + 2,
                     Append(parts, DisplayMathNode(SubSeq(t, i + 2, j - 1)))))
    ELSE save_display_math_from(t, i, parts,
        NextStart(LAMBDA k : LazyEnd(t, k, <<"$", "$">>, <<"$", "$">>, TRUE), i, Len(t)))

\* no match at i: the characters up to the next start n of a match are kept
save_display_math_from(t, i, parts, n) ==
    Prepend(SubSeq(t, i, n - 1), save_display_math(t, n, parts))

\* re.sub(r'\$([^\$]+?)\$', save_inline_math, text)
RECURSIVE save_inline_math(_, _, _)
RECURSIVE save_inline_math_at(_, _, _, _)
RECURSIVE save_inline_math_from(_, _, _, _)
save_inline_math(t, i, parts) ==
    IF i > Len(t) THEN [text |-> <<>>, parts |-> parts]
    ELSE save_inline_math_at(t, i, parts, ClassEnd(t, i, <<"$">>, {"$"}, <<"$">>))

\* the substitution from i on, given the end j of the match at i
save_inline_math_at(t, i, parts, j) ==
    IF j > 0
    THEN Prepend(PhMath(Len(parts)),
                 save_inline_math(t, j + 1,
                     Append(parts, InlineMathNode(SubSeq(t, i + 1, j - 1)))))
    ELSE save_inline_math_from(t, i, parts,
        NextStart(LAMBDA k : ClassEnd(t, k, <<"$">>, {"$"}, <<"$">>), i, Len(t)))

\* no match at i: the characters up to the next start n of a match are kept
save_inline_math_from(t, i, parts, n) ==
    Prepend(SubSeq(t, i, n - 1), save_inline_math(t, n, parts))

\* the closing underscore j of a match that opens at i: the content is not
\* empty and no word character follows
ItalicUnderscoreEndAt(t, i, j) ==
    IF j > i + 1 /\ (j = Len(t) \/ ~IsWord(t[j + 1])) THEN j ELSE 0

\* A match of (?<![_\w])_([^_]+?)_(?![_\w]) starting at i: the index of the
\* closing underscore, 0 when there is no match.
ItalicUnderscoreEnd(t, i) ==
    IF t[i] # "_" THEN 0
    ELSE IF i > 1 /\ IsWord(t[i - 1]) THEN 0
    ELSE ItalicUnderscoreEndAt(t, i, FindIn(t, {"_"}, i + 1))

RECURSIVE SubItalicUnderscore(_, _)
RECURSIVE SubItalicUnderscoreAt(_, _, _)
RECURSIVE SubItalicUnderscoreFrom(_, _, _)
SubItalicUnderscore(t, i) ==
    IF i > Len(t) THEN <<>>
    ELSE SubItalicUnderscoreAt(t, i, ItalicUnderscoreEnd(t, i))

\* the substitution from i on, given the end j of the match at i
SubItalicUnderscoreAt(t, i, j) ==
    IF j > 0
    THEN S_em \o SubSeq(t, i + 1, j - 1) \o S_em_end \o SubItalicUnderscore(t, j + 1)
    ELSE SubItalicUnderscoreFrom(t, i,
                                 NextStart(LAMBDA k : ItalicUnderscoreEnd(t, k), i, Len(t)))

\* no match at i: the characters up to the next start n of a match are kept
SubItalicUnderscoreFrom(t, i, n) ==
    SubSeq(t, i, n - 1) \o SubItalicUnderscore(t, n)

\* lines 76-86: the seven emphasis substitutions, in the source's order
Emphasis(t0) ==
    LET t1 == SubLazy(t0, 1, <<"*", "*", "*">>, <<"*", "*", "*">>, FALSE, S_em, S_em_end)
        t2 == SubLazy(t1, 1, <<"*", "*", "_">>, <<"_", "*", "*">>, FALSE, S_em, S_em_end)
        t3 == SubLazy(t2, 1, <<"_", "*", "*">>, <<"*", "*", "_">>, FALSE, S_em, S_em_end)
        t4 == SubLazy(t3, 1, <<"*", "*">>, <<"*", "*">>, FALSE, S_em, S_em_end)
        t5 == SubLazy(t4, 1, <<"_", "_">>, <<"_", "_">>, FALSE, S_em, S_em_end)
        t6 == SubClass(t5, 1, <<"*">>, {"*"}, <<"*">>, S_em, S_em_end)
    IN  SubItalicUnderscore(t6, 1)

\* line 89
CrossRefs(t) == SubClass(t, 1, S_ref, {")"}, <<")">>, S_xref, S_xref_end)

\* for i, part in enumerate(parts): text = text.replace(ph(i), wrap(part))
RECURSIVE RestoreDispMath(_, _, _)
RestoreDispMath(t, parts, i) ==
    IF i > Len(parts) THEN t
    ELSE RestoreDispMath(Replace(t, PhDispMath(i - 1), parts[i]), parts, i + 1)

RECURSIVE RestoreMath(_, _, _)
RestoreMath(t, parts, i) ==
    IF i > Len(parts) THEN t
    ELSE RestoreMath(Replace(t, PhMath(i - 1), parts[i]), parts, i + 1)

RECURSIVE RestoreCode(_, _, _)
RestoreCode(t, parts, i) ==
    IF i > Len(parts) THEN t
    ELSE RestoreCode(
             Replace(t, PhCode(i - 1), S_c \o escape_xml_text(parts[i]) \o S_c_end),
             parts, i + 1)

\* lines 98-111: the four restore passes, in the source's order
Restore(t, disp, math, code) ==
    Replace(RestoreCode(RestoreMath(RestoreDispMath(t, disp, 1), math, 1), code, 1),
            S_LITERALDOLLAR, <<"$">>)

RECURSIVE convert_inline_formatting(_, _)
RECURSIVE convert_footnote(_, _)
RECURSIVE convert_footnote_at(_, _, _)
RECURSIVE convert_footnote_from(_, _, _)

\* the footnote pattern with a greedy group, \^\[(.+)\]: the last closing
\* bracket that leaves a content of at least one character
footnote_match_greedy(t, i) ==
    IF StartsAt(t, i, <<"^", "[">>) /\ \E j \in (i + 3)..Len(t) : t[j] = "]"
    THEN CHOOSE j \in (i + 3)..Len(t) :
             t[j] = "]" /\ \A k \in (j + 1)..Len(t) : t[k] # "]"
    ELSE 0

\* a match of r'\^\[([^\]]+)\]' starting at i: the index of the closing
\* bracket, 0 when there is no match
footnote_match(t, i) == ClassEnd(t, i, <<"^", "[">>, {"]"}, <<"]">>)

\* re.sub(r'\^\[([^\]]+)\]', convert_footnote, text)
convert_footnote(t, i) ==
    IF i > Len(t) THEN <<>>
    ELSE convert_footnote_at(t, i, footnote_match(t, i))

\* the substitution from i on, given the end j of the match at i
convert_footnote_at(t, i, j) ==
    IF j > 0
    THEN S_fn \o convert_inline_formatting(SubSeq(t, i + 2, j - 1), FALSE)
              \o S_fn_end \o convert_footnote(t, j + 1)
    ELSE convert_footnote_from(t, i,
        NextStart(LAMBDA k : footnote_match(t, k), i, Len(t)))

\* no match at i: the characters up to the next start n of a match are kept
convert_footnote_from(t, i, n) ==
    SubSeq(t, i, n - 1) \o convert_footnote(t, n)

\* convert_inline_formatting with the emphasis pass run on the raw text,
\* ahead of the protection of code and math
convert_inline_formatting_emphasis_first(text, escape) ==
    LET t1 == Emphasis(Replace(text, S_esc_dollar, S_LITERALDOLLAR))
        c == save_code(t1, 1, <<>>)
        d == save_display_math(c.text, 1, <<>>)
        m == save_inline_math(d.text, 1, <<>>)
        t5 == IF escape THEN escape_xml_text(m.text) ELSE m.text
        t7 == CrossRefs(t5)
        t8 == convert_footnote(t7, 1)
    IN  Restore(t8, d.parts, m.parts, c.parts)

\* lines 37-68: the text after the escaped dollars, the code spans and the
\* math spans have been replaced by placeholders
protected_text(text) ==
    save_inline_math(
        save_display_math(
            save_code(Replace(text, S_esc_dollar, S_LITERALDOLLAR), 1, <<>>).text,
            1, <<>>).text,
        1, <<>>).text

\* lines 71-96 and 98-111: escaping, emphasis, cross-references, footnotes,
\* then the restore passes, given what the three protection passes saved
format_protected(text, disp, math, code, escape) ==
    Restore(convert_footnote(
                CrossRefs(Emphasis(IF escape THEN escape_xml_text(text) ELSE text)), 1),
            disp, math, code)

\* lines 56-68 on: m is what save_inline_math returned
after_inline_math(m, disp, code, escape) ==
    format_protected(m.text, disp, m.parts, code, escape)

\* lines 46-55 on: d is what save_display_math returned
after_display_math(d, code, escape) ==
    after_inline_math(save_inline_math(d.text, 1, <<>>), d.parts, code, escape)

\* lines 36-44 on: c is what save_code returned
after_code(c, escape) ==
    after_display_math(save_display_math(c.text, 1, <<>>), c.parts, escape)

\* RmdToPreTeXt.convert_inline_formatting
convert_inline_formatting(text, escape) ==
    after_code(save_code(Replace(text, S_esc_dollar, S_LITERALDOLLAR), 1, <<>>), escape)

\* lines 37-89: the text the footnote substitution of line 96 runs on
footnote_input(text, escape) ==
    CrossRefs(Emphasis(
        IF escape
        THEN escape_xml_text(protected_text(text))
        ELSE protected_text(text)))

\* the depth of the calls of convert_inline_formatting that a call on text
\* makes, itself counted: one more than the deepest call that convert_footnote
\* makes on the content of a footnote of the text
RECURSIVE call_depth(_, _)
RECURSIVE footnote_calls_depth(_, _)
call_depth(text, escape) == 1 + footnote_calls_depth(footnote_input(text, escape), 1)

\* the deepest call made for the footnotes matched from i on, 0 when there
\* is none
footnote_calls_depth(t, i) ==
    IF i > Len(t) THEN 0
    ELSE IF footnote_match(t, i) > 0
    THEN IF call_depth(SubSeq(t, i + 2, footnote_match(t, i) - 1), FALSE)
                >= footnote_calls_depth(t, footnote_match(t, i) + 1)
         THEN call_depth(SubSeq(t, i + 2, footnote_match(t, i) - 1), FALSE)
         ELSE footnote_calls_depth(t, footnote_match(t, i) + 1)
    ELSE footnote_calls_depth(t, i + 1)

(***************************************************************************)
(* More string helpers                                                     *)
(***************************************************************************)

LowerSeq ==
    <<"a", "b", "c", "d", "e", "f", "g", "h", "i", "j", "k", "l", "m", "n",
      "o", "p", "q", "r", "s", "t", "u", "v", "w", "x", "y", "z">>
UpperSeq ==
    <<"A", "B", "C", "D", "E", "F", "G", "H", "I", "J", "K", "L", "M", "N",
      "O", "P", "Q", "R", "S", "T", "U", "V", "W", "X", "Y", "Z">>

UpperChar(c) ==
    IF \E k \in 1..26 : LowerSeq[k] = c
    THEN UpperSeq[CHOOSE k \in 1..26 : LowerSeq[k] = c] ELSE c

\* str.upper()
Upper(t) == [k \in 1..Len(t) |-> UpperChar(t[k])]

\* t[i:] with a 0-based i, as Python slices
From(t, i) == SubSeq(t, i + 1, Len(t))

\* str.split(sep) for a one-character sep
RECURSIVE Split(_, _)
Split(t, sep) ==
    LET j == Find(t, <<sep>>, 1)
    IN  IF j = 0 THEN <<t>>
        ELSE <<SubSeq(t, 1, j - 1)>> \o Split(From(t, j), sep)

\* str.split(sep, 1)
Split1(t, sep) ==
    LET j == Find(t, <<sep>>, 1)
    IN  IF j = 0 THEN <<t>> ELSE <<SubSeq(t, 1, j - 1), From(t, j)>>

\* the number of leading characters of t that are in X
RECURSIVE Span(_, _)
Span(t, X) == IF t # <<>> /\ t[1] \in X THEN 1 + Span(Tail(t), X) ELSE 0

\* a dict: a function from keys to values
EmptyDict == <<>>
DictGet(d, k, default) == IF k \in DOMAIN d THEN d[k] ELSE default
DictSet(d, k, v) == [x \in (DOMAIN d) \cup {k} |-> IF x = k THEN v ELSE d[x]]

K_lang == <<"l", "a", "n", "g">>
K_echo == <<"e", "c", "h", "o">>
K_eval == <<"e", "v", "a", "l">>
V_r == <<"r">>
V_TRUE == <<"T", "R", "U", "E">>
V_FALSE == <<"F", "A", "L", "S", "E">>
S_fence == <<BT, BT, BT>>
S6_fence_r == <<BT, BT, BT, "{", "r">>

\* the dict value True
PyTrue == <<"True">>

(***************************************************************************)
(* convert_ch4_statistical_theory.py: RmdToPreTeXt                         *)
(*                                                                         *)
(* The object is the record Self; a method is an operator from the object  *)
(* to the object after the call.  Output lines:                            *)
(*   <<"open", tag>>          f'<{tag}>'                                   *)
(*   <<"open_id", tag, id>>   f'<{tag} xml:id="{xml_id}">'                 *)
(*   <<"close", tag>>         f'</{tag}>'                                  *)
(*   <<"title", t>>           f'<title>{title}</title>'                    *)
(*   <<"p", t>>               f'<p>{content}</p>'                          *)
(*   <<"li", t>>              f'<li><p>{item}</p></li>'                    *)
(*   <<"output", t>>          f'<output><![CDATA[{code}]]></output>'       *)
(*   <<"input", t>>           f'<input><![CDATA[{code}]]></input>'         *)
(*   <<"lit", s>>             a constant string s                          *)
(***************************************************************************)

Self ==
    [output |-> output, in_code_block |-> in_code_block,
     code_block_lines |-> code_block_lines, code_block_params |-> code_block_params,
     in_paragraph |-> in_paragraph, paragraph_lines |-> paragraph_lines,
     in_list |-> in_list, list_lines |-> list_lines, list_type |-> list_type,
     in_blockquote |-> in_blockquote, blockquote_lines |-> blockquote_lines,
     section_stack |-> section_stack]

\* the object becomes s
Becomes(s) ==
    /\ output' = s.output
    /\ in_code_block' = s.in_code_block
    /\ code_block_lines' = s.code_block_lines
    /\ code_block_params' = s.code_block_params
    /\ in_paragraph' = s.in_paragraph
    /\ paragraph_lines' = s.paragraph_lines
    /\ in_list' = s.in_list
    /\ list_lines' = s.list_lines
    /\ list_type' = s.list_type
    /\ in_blockquote' = s.in_blockquote
    /\ blockquote_lines' = s.blockquote_lines
    /\ section_stack' = s.section_stack

\* RmdToPreTeXt.__init__
NewConverter ==
    [output |-> <<>>, in_code_block |-> FALSE, code_block_lines |-> <<>>,
     code_block_params |-> EmptyDict, in_paragraph |-> FALSE,
     paragraph_lines |-> <<>>, in_list |-> FALSE, list_lines |-> <<>>,
     list_type |-> NoListType, in_blockquote |-> FALSE, blockquote_lines |-> <<>>,
     section_stack |-> <<>>]

Emit(s, lines) == [s EXCEPT !.output = s.output \o lines]

\* lines 118-123: the paragraph is emitted when it is not empty, and the
\* buffer reset
emit_paragraph(s, content) ==
    [(IF content # <<>>
      THEN Emit(s, <<<<"p", convert_inline_formatting(content, TRUE)>>>>)
      ELSE s)
        EXCEPT !.paragraph_lines = <<>>, !.in_paragraph = FALSE]

flush_paragraph(s) ==
    IF s.paragraph_lines # <<>>
    THEN emit_paragraph(s, Strip(Join(<<" ">>, s.paragraph_lines)))
    ELSE s

\* lines 128-136: the items of the list, formatted
ListItems(items) ==
    [k \in 1..Len(items) |-> <<"li", convert_inline_formatting(items[k], TRUE)>>]

\* line 127: tag = 'ul' if self.list_type == 'ul' else 'ol'
ListTag(s) == IF s.list_type = "ul" THEN "ul" ELSE "ol"

\* flush_list without the reset of the buffer
flush_list_keep(s) ==
    IF s.list_lines # <<>>
    THEN Emit(s, <<<<"open", ListTag(s)>>>> \o ListItems(s.list_lines)
                     \o <<<<"close", ListTag(s)>>>>)
    ELSE s

flush_list(s) ==
    IF s.list_lines # <<>>
    THEN [Emit(s, <<<<"open", ListTag(s)>>>> \o ListItems(s.list_lines)
                      \o <<<<"close", ListTag(s)>>>>)
             EXCEPT !.list_lines = <<>>, !.list_type = NoListType, !.in_list = FALSE]
    ELSE s

\* lines 141-147: the quote is emitted and the buffer reset
emit_blockquote(s, content) ==
    [Emit(s, << <<"lit", "<blockquote>">>,
                <<"p", convert_inline_formatting(content, TRUE)>>,
                <<"lit", "</blockquote>">> >>)
        EXCEPT !.blockquote_lines = <<>>, !.in_blockquote = FALSE]

flush_blockquote(s) ==
    IF s.blockquote_lines # <<>>
    THEN emit_blockquote(s, Strip(Join(<<" ">>, s.blockquote_lines)))
    ELSE s

flush_code_block(s) ==
    IF s.code_block_lines # <<>>
    THEN LET code == Join(<<"\n">>, s.code_block_lines)
             echo == Upper(DictGet(s.code_block_params, K_echo, V_TRUE))
             eval_param == Upper(DictGet(s.code_block_params, K_eval, V_TRUE))
             console == << <<"lit", "<console>">>, <<"output", code>>,
                           <<"lit", "</console>">> >>
             program == << <<"lit", "<program language=\"r\">">>, <<"input", code>>,
                           <<"lit", "</program>">> >>
             s1 == IF DictGet(s.code_block_params, K_lang, None) = V_r
                   THEN IF echo = V_FALSE \/ eval_param = V_FALSE
                        THEN Emit(s, console) ELSE Emit(s, program)
                   ELSE Emit(s, console)
         IN  [s1 EXCEPT !.code_block_lines = <<>>, !.code_block_params = EmptyDict,
                        !.in_code_block = FALSE]
    ELSE s

\* close_sections with > for >= in the loop condition
RECURSIVE close_sections_gt(_, _)
close_sections_gt(s, target_level) ==
    LET n == Len(s.section_stack)
    IN  IF n > 0 /\ s.section_stack[n][1] > target_level
        THEN close_sections_gt(
                 [s EXCEPT !.section_stack = SubSeq(s.section_stack, 1, n - 1),
                           !.output = Append(s.output, <<"close", s.section_stack[n][2]>>)],
                 target_level)
        ELSE s

\* RmdToPreTeXt.close_sections
RECURSIVE close_sections(_, _)
close_sections(s, target_level) ==
    LET n == Len(s.section_stack)
    IN  IF n > 0 /\ s.section_stack[n][1] >= target_level
        THEN close_sections(
                 [s EXCEPT !.section_stack = SubSeq(s.section_stack, 1, n - 1),
                           !.output = Append(s.output, <<"close", s.section_stack[n][2]>>)],
                 target_level)
        ELSE s

\* lines 204-208: the key=value parts after the first one
\* lines 205-208: key, value = part.split('=', 1), both stripped
FenceKeyValue(d, kv) == DictSet(d, Strip(kv[1]), Strip(kv[2]))

\* lines 204-208: one stripped part of the parameter list
FencePart(d, part) ==
    IF Contains(part, <<"=">>) THEN FenceKeyValue(d, Split1(part, "=")) ELSE d

RECURSIVE FenceParts(_, _, _)
FenceParts(d, parts, k) ==
    IF k > Len(parts) THEN d
    ELSE FenceParts(FencePart(d, Strip(parts[k])), parts, k + 1)

\* line 200: params_str[1:-1] if params_str.endswith('}') else params_str[1:]
FenceInner(params_str) ==
    IF params_str[Len(params_str)] = "}"
    THEN SubSeq(params_str, 2, Len(params_str) - 1)
    ELSE From(params_str, 1)

\* lines 198-210: code_block_params for the text after the fence marker
FenceParamsOf(d, params_str) ==
    IF StartsWith(params_str, <<"{">>)
    THEN FenceParts(DictSet(d, K_lang, V_r), Split(FenceInner(params_str), ","), 2)
    ELSE IF params_str # <<>> THEN DictSet(d, K_lang, params_str)
    ELSE d

\* lines 197-210: code_block_params after a fence-open line
FenceParams(d, ln) == FenceParamsOf(d, Strip(From(ln, 3)))

\* the tail of the heading pattern on r, j the first closing brace when r
\* starts with {#
HeadingTailAt(r, j) ==
    IF j > 3 /\ Span(From(r, j), WhiteSpace) = Len(r) - j
    THEN [ok |-> TRUE, id |-> SubSeq(r, 3, j - 1)]
    ELSE [ok |-> Span(r, WhiteSpace) = Len(r), id |-> None]

\* (?:\{#([^}]+)\})?\s*$ on the text after the title: whether it matches and
\* the id group (None when the group took no part)
HeadingTail(r) ==
    HeadingTailAt(r, IF StartsWith(r, <<"{", "#">>) THEN FindIn(r, {"}"}, 3) ELSE 0)

\* the match of the heading pattern, for a line of n hashes, R the text the
\* title group and the tail share, L the length of the (lazy) title group
heading_match_at(n, R, L) ==
    [ok |-> TRUE, level |-> n, title |-> SubSeq(R, 1, L),
     xml_id |-> HeadingTail(From(R, L)).id]

\* the title group is the shortest one the tail matches after
heading_match_title(n, R) ==
    heading_match_at(n, R, First({k \in 1..Len(R) : HeadingTail(From(R, k)).ok}))

\* \s+ takes the w whitespace characters after the hashes, or gives the last
\* one back to the title when nothing else follows
heading_match_space(n, after, w) ==
    IF n \in 1..4 /\ w >= 1 /\ (From(after, w) # <<>> \/ w >= 2)
    THEN heading_match_title(n, IF From(after, w) # <<>> THEN From(after, w)
                                ELSE From(after, w - 1))
    ELSE [ok |-> FALSE]

\* the line has n hashes, then after
heading_match_hashes(n, after) ==
    heading_match_space(n, after, Span(after, WhiteSpace))

\* re.match(r'^(#{1,4})\s+(.+?)(?:\{#([^}]+)\})?\s*$', line)
heading_match(ln) == heading_match_hashes(Span(ln, {"#"}), From(ln, Span(ln, {"#"})))

\* the marker [-*+] or \d+\. at the start of a: its length, 0 when there is
\* none; d is the number of leading digits
MarkerLen(a, d) ==
    IF a # <<>> /\ a[1] \in {"-", "*", "+"} THEN 1
    ELSE IF d >= 1 /\ Len(a) > d /\ a[d + 1] = "." THEN d + 1
    ELSE 0

\* \s+(.+)$ on b, the text after the marker, w its leading whitespace
list_match_rest(marker, b, w) ==
    IF marker # <<>> /\ w >= 1 /\ (From(b, w) # <<>> \/ w >= 2)
    THEN [ok |-> TRUE, marker |-> marker,
          content |-> IF From(b, w) # <<>> THEN From(b, w) ELSE From(b, w - 1)]
    ELSE [ok |-> FALSE]

\* a marker of length mlen, then the rest
list_match_space(a, mlen) ==
    list_match_rest(SubSeq(a, 1, mlen), From(a, mlen), Span(From(a, mlen), WhiteSpace))

\* the line without its leading whitespace
list_match_marker(a) == list_match_space(a, MarkerLen(a, Span(a, DigitSet)))

\* re.match(r'^(\s*)([-*+]|\d+\.)\s+(.+)$', line)
list_match(ln) == list_match_marker(From(ln, Span(ln, WhiteSpace)))

FlushBlocks(s) == flush_blockquote(flush_list(flush_paragraph(s)))

TagOf(level) ==
    IF level = 1 THEN "chapter"
    ELSE IF level = 2 THEN "section"
    ELSE IF level = 3 THEN "subsection"
    ELSE "subsubsection"

\* lines 197-212: the fence opens a block
open_fence(s, ln) ==
    [s EXCEPT !.code_block_params = FenceParams(@, ln), !.in_code_block = TRUE]

\* process_line, lines 189-213: a line that starts with the fence marker
ProcessFence(s, ln) ==
    IF s.in_code_block THEN flush_code_block(s)
    ELSE open_fence(FlushBlocks(s), ln)

\* lines 247-252: the node is opened and pushed
open_section(s, level, tag, xml_id, title) ==
    [s EXCEPT !.output = @ \o << (IF xml_id # None /\ xml_id # <<>>
                                  THEN <<"open_id", tag, xml_id>>
                                  ELSE <<"open", tag>>),
                                 <<"title", title>> >>,
              !.section_stack = Append(@, <<level, tag>>)]

\* process_line, lines 221-253: a heading
ProcessHeading(s, h) ==
    open_section(close_sections(FlushBlocks(s), h.level), h.level, TagOf(h.level),
                 h.xml_id, convert_inline_formatting(Strip(h.title), TRUE))

\* lines 260-264: the text after '>' joins the quote when it is not empty
add_quote(s, content) ==
    [s EXCEPT !.blockquote_lines = IF content # <<>> THEN Append(@, content) ELSE @,
              !.in_blockquote = TRUE]

\* ProcessQuote without the flush of the pending paragraph and list
ProcessQuote_no_flush(s, ln) == add_quote(s, Strip(From(ln, 1)))

\* process_line, lines 256-264: a line that starts with '>'
ProcessQuote(s, ln) == add_quote(flush_list(flush_paragraph(s)), Strip(From(ln, 1)))

\* lines 288-291: the item joins the list
append_list_item(s, content, new_list_type) ==
    [s EXCEPT !.list_type = new_list_type,
              !.list_lines = Append(@, content),
              !.in_list = TRUE]

\* lines 281-291: a list of the other type is flushed first
add_list_item(s, content, new_list_type) ==
    append_list_item(IF s.in_list /\ s.list_type # new_list_type
                     THEN flush_list(s) ELSE s,
                     content, new_list_type)

\* line 279: 'ol' if marker[0].isdigit() else 'ul'
ListTypeOf(marker) == IF marker[1] \in DigitSet THEN "ol" ELSE "ul"

\* ProcessListItem without the flush on a change of list type
ProcessListItem_merge(s, lm) ==
    append_list_item(flush_paragraph(s), lm.content, ListTypeOf(lm.marker))

\* process_line, lines 275-292: a list item
ProcessListItem(s, lm) ==
    add_list_item(flush_paragraph(s), lm.content, ListTypeOf(lm.marker))

\* lines 302-306: the line joins the paragraph
add_paragraph_line(s, content) ==
    [s EXCEPT !.paragraph_lines = Append(@, content), !.in_paragraph = TRUE]

\* process_line, lines 274-306: lm is the match of the list pattern
process_line_list(s, ln, lm) ==
    IF lm.ok THEN ProcessListItem(s, lm)
    ELSE IF Strip(ln) = <<>> THEN FlushBlocks(s)
    ELSE add_paragraph_line(flush_blockquote(flush_list(s)), Strip(ln))

\* process_line, lines 220-306: h is the match of the heading pattern
process_line_heading(s, ln, h) ==
    IF h.ok THEN ProcessHeading(s, h)
    ELSE IF StartsWith(ln, <<">">>) THEN ProcessQuote(s, ln)
    ELSE IF s.in_blockquote /\ Strip(ln) # <<>>
    THEN [s EXCEPT !.blockquote_lines = Append(@, Strip(ln))]
    ELSE IF s.in_blockquote /\ Strip(ln) = <<>> THEN flush_blockquote(s)
    ELSE process_line_list(s, ln, list_match(ln))

\* process_line with the heading test ahead of the in_code_block test
process_line_heading_first(s, ln) ==
    IF StartsWith(ln, S_fence) THEN ProcessFence(s, ln)
    ELSE IF heading_match(ln).ok THEN ProcessHeading(s, heading_match(ln))
    ELSE IF s.in_code_block
    THEN [s EXCEPT !.code_block_lines = Append(@, ln)]
    ELSE process_line_heading(s, ln, heading_match(ln))

\* RmdToPreTeXt.process_line
process_line(s, ln) ==
    IF StartsWith(ln, S_fence) THEN ProcessFence(s, ln)
    ELSE IF s.in_code_block
    THEN [s EXCEPT !.code_block_lines = Append(@, ln)]
    ELSE process_line_heading(s, ln, heading_match(ln))

\* convert, lines 316-317
convert_begin(s) ==
    Emit(s, << <<"lit", "<?xml version=\"1.0\" encoding=\"UTF-8\"?>">>, <<"lit", "">> >>)

\* convert's tail without the final close_sections(0)
convert_end_no_close(s) == flush_code_block(FlushBlocks(s))

\* convert's tail without the flush_code_block() of line 328
convert_end_no_code(s) == close_sections(FlushBlocks(s), 0)

\* convert, lines 325-331
convert_end(s) ==
    close_sections(flush_code_block(FlushBlocks(s)), 0)

(***************************************************************************)
(* Spec: convert_ch4_statistical_theory.RmdToPreTeXt.convert on every      *)
(* sequence of at most MaxLines lines drawn from Ch4Lines                  *)
(***************************************************************************)

MaxLines == 4

L_h1 == <<"#", " ", "A", " ", "{", "#", "a", "}">>
L_h2 == <<"#", "#", " ", "B">>
L_h3 == <<"#", "#", "#", " ", "C">>
L_h4 == <<"#", "#", "#", "#", " ", "D">>
L_fence == <<BT, BT, BT>>
L_quote_empty == <<">">>
L_quote == <<">", " ", "q">>
L_bullet == <<"-", " ", "a">>
L_numbered == <<"1", ".", " ", "b">>
L_blank == <<>>
L_text == <<"t">>

Ch4Lines ==
    {L_h1, L_h2, L_h3, L_h4, L_fence, L_quote_empty, L_quote, L_bullet,
     L_numbered, L_blank, L_text}

\* the object is s
Is(s) ==
    /\ output = s.output
    /\ in_code_block = s.in_code_block
    /\ code_block_lines = s.code_block_lines
    /\ code_block_params = s.code_block_params
    /\ in_paragraph = s.in_paragraph
    /\ paragraph_lines = s.paragraph_lines
    /\ in_list = s.in_list
    /\ list_lines = s.list_lines
    /\ list_type = s.list_type
    /\ in_blockquote = s.in_blockquote
    /\ blockquote_lines = s.blockquote_lines
    /\ section_stack = s.section_stack

Init ==
    /\ Is(NewConverter)
    /\ line = None
    /\ nlines = 0
    /\ pc = "new"
    /\ inp = None
    /\ res = None

\* convert up to its loop
ConvertBegin ==
    /\ pc = "new"
    /\ Becomes(convert_begin(Self))
    /\ pc' = "run"
    /\ UNCHANGED <<line, nlines, fun>>

\* one iteration of convert's loop: process_line(line)
ProcessLine ==
    /\ pc = "run"
    /\ nlines < MaxLines
    /\ \E ln \in Ch4Lines :
          /\ Becomes(process_line(Self, ln))
          /\ line' = ln
    /\ nlines' = nlines + 1
    /\ UNCHANGED <<pc, fun>>

\* convert after its loop
ConvertEnd ==
    /\ pc = "run"
    /\ Becomes(convert_end(Self))
    /\ pc' = "done"
    /\ UNCHANGED <<line, nlines, fun>>

Next == ConvertBegin \/ ProcessLine \/ ConvertEnd

Spec == Init /\ [][Next]_vars

(***************************************************************************)
(* Claims about convert_ch4_statistical_theory.RmdToPreTeXt (Spec)         *)
(***************************************************************************)

Structural == {"chapter", "section", "subsection", "subsubsection"}

IsOpen(o) == o[1] \in {"open", "open_id"} /\ o[2] \in Structural
IsClose(o) == o[1] = "close" /\ o[2] \in Structural

\* structural opens and closes among the first n output lines
Opens(out, n) == Cardinality({k \in 1..n : IsOpen(out[k])})
Closes(out, n) == Cardinality({k \in 1..n : IsClose(out[k])})

\* the step is a process_line call
LineStep == pc = "run" /\ pc' = "run" /\ nlines' = nlines + 1

\* C1: in every prefix of the output the structural closes never exceed the
\* structural opens, and when convert has finished they are equal.
C1_Balanced ==
    /\ \A n \in 0..Len(output) : Closes(output, n) <= Opens(output, n)
    /\ pc = "done" => Closes(output, Len(output)) = Opens(output, Len(output))

\* a finished conversion that opened a chapter, a section and a subsection
\* and then a second section
C1_Witness ==
    /\ pc = "done"
    /\ Opens(output, Len(output)) = 4
    /\ \E k \in 1..Len(output) : output[k] = <<"open", "subsection">>

\* C2: a heading of level d processed outside a fence pops exactly the open
\* entries of level >= d, emits their close tags deepest first right before
\* the new open tag and its title, emits no other structural tag, keeps the
\* entries of level < d, and pushes the new node on top of them.
C2_CloseToParent ==
    [][(LineStep /\ ~in_code_block /\ ~StartsWith(line', S_fence)
            /\ heading_match(line').ok)
       => LET d == heading_match(line').level
              Low(e) == e[1] < d
              High(e) == e[1] >= d
              keep == SelectSeq(section_stack, Low)
              popped == SelectSeq(section_stack, High)
              np == Len(popped)
              n == Len(output')
          IN  /\ section_stack' = Append(keep, <<d, TagOf(d)>>)
              /\ \A k \in 1..Len(keep) : keep[k][1] < d
              /\ n >= Len(output) + np + 2
              /\ SubSeq(output', 1, Len(output)) = output
              /\ \A k \in 1..np :
                    output'[n - 2 - np + k] = <<"close", popped[np + 1 - k][2]>>
              /\ IsOpen(output'[n - 1]) /\ output'[n - 1][2] = TagOf(d)
              /\ output'[n][1] = "title"
              /\ Closes(output', n) = Closes(output, Len(output)) + np
              /\ Opens(output', n) = Opens(output, Len(output)) + 1]_vars

\* a level-2 heading has just closed a subsection and then a section
C2_Witness ==
    /\ pc = "run"
    /\ line = L_h2
    /\ Len(output) >= 4
    /\ output[Len(output) - 3] = <<"close", "subsection">>
    /\ output[Len(output) - 2] = <<"close", "section">>
    /\ output[Len(output) - 1] = <<"open", "section">>

\* the list element that holds output line k: the tag of the nearest list
\* open before it
RECURSIVE ListTagAt(_, _)
ListTagAt(out, k) ==
    IF k = 0 THEN "none"
    ELSE IF out[k][1] = "open" /\ out[k][2] \in {"ul", "ol"} THEN out[k][2]
    ELSE IF out[k][1] = "close" /\ out[k][2] \in {"ul", "ol"} THEN "none"
    ELSE ListTagAt(out, k - 1)

\* C5: a list item whose marker kind differs from the active list's kind
\* flushes the active list as one element of its own kind and starts a list
\* of the new kind holding only the new item; and every emitted list item
\* lies in a list element of its marker's kind (the bullet items of Ch4Lines
\* read "a", the numbered ones "b").
C5_ListKindSwitch ==
    /\ [](\A k \in 1..Len(output) :
             output[k][1] = "li" =>
                 /\ output[k][2] = <<"a">> => ListTagAt(output, k) = "ul"
                 /\ output[k][2] = <<"b">> => ListTagAt(output, k) = "ol")
    /\ [][(LineStep /\ ~in_code_block /\ in_list /\ list_match(line').ok
              /\ list_type # (IF line'[1] \in DigitSet THEN "ol" ELSE "ul"))
           => /\ output' = output \o <<<<"open", list_type>>>>
                    \o [k \in 1..Len(list_lines) |->
                           <<"li", convert_inline_formatting(list_lines[k], TRUE)>>]
                    \o <<<<"close", list_type>>>>
              /\ list_lines' = <<list_match(line').content>>
              /\ list_type' = (IF line'[1] \in DigitSet THEN "ol" ELSE "ul")
              /\ in_list']_vars

\* "- a" then "1. b" with no blank line between: the unordered list is out
\* and the ordered list is pending
C5_Witness ==
    /\ pc = "run"
    /\ line = L_numbered
    /\ list_lines = <<<<"b">>>>
    /\ list_type = "ol"
    /\ Len(output) >= 3
    /\ output[Len(output) - 2] = <<"open", "ul">>
    /\ output[Len(output) - 1] = <<"li", <<"a">>>>
    /\ output[Len(output)] = <<"close", "ul">>

\* C6: after a blank line outside a fence no paragraph, list or blockquote is
\* active; inside a fence a blank line is only appended to the code buffer.
C6_BlankLineEndsBlocks ==
    [][(LineStep /\ Strip(line') = <<>>)
       => IF in_code_block
          THEN /\ code_block_lines' = Append(code_block_lines, line')
               /\ UNCHANGED <<output, in_code_block, code_block_params, in_paragraph,
                              paragraph_lines, in_list, list_lines, list_type,
                              in_blockquote, blockquote_lines, section_stack>>
          ELSE /\ paragraph_lines' = <<>> /\ list_lines' = <<>>
               /\ blockquote_lines' = <<>>
               /\ ~in_paragraph' /\ ~in_list' /\ ~in_blockquote']_vars

\* C7: while a fenced block is open a line that does not start with the fence
\* marker is appended unchanged to code_block_lines and nothing else changes.
C7_FenceFrame ==
    [][(LineStep /\ in_code_block /\ ~StartsWith(line', S_fence))
       => /\ code_block_lines' = Append(code_block_lines, line')
          /\ UNCHANGED <<output, in_code_block, code_block_params, in_paragraph,
                         paragraph_lines, in_list, list_lines, list_type,
                         in_blockquote, blockquote_lines, section_stack>>]_vars

\* an open fence holding a heading-like, a list-like, a quote-like and a
\* blank line, with nothing emitted for them and no section opened
C7_Witness ==
    /\ in_code_block
    /\ section_stack = <<>>
    /\ Len(code_block_lines) = 3
    /\ \E k \in 1..3 : code_block_lines[k] = L_h2
    /\ \E k \in 1..3 : code_block_lines[k] \in {L_bullet, L_quote}
    /\ \E k \in 1..3 : code_block_lines[k] = L_blank
    /\ Len(output) = 2

(***************************************************************************)
(* SpecInline: convert_ch4_statistical_theory's convert_inline_formatting  *)
(* on a text made of a context, a math delimiter, a math content, the      *)
(* delimiter again and a context.  inp holds the five segments, the        *)
(* argument is their concatenation.                                        *)
(***************************************************************************)

MaxMath == 2

\* the characters (and the one word) math contents are made of
MathChunks ==
    {<<"x">>, <<"*">>, <<"_">>, <<"\\">>, <<" ">>, S_begin}

RECURSIVE ChunkStrings(_, _)
\* the concatenations of at most n chunks of C
ChunkStrings(C, n) ==
    IF n = 0 THEN {<<>>}
    ELSE LET shorter == ChunkStrings(C, n - 1)
         IN  shorter \cup {t \o c : t \in shorter, c \in C}

PreContexts ==
    {<<>>, <<"*">>, <<"a", "_">>, <<"^", "[">>, <<"a", "&">>, <<"$", "x">>}
PostContexts ==
    {<<>>, <<"*">>, <<"_", "b">>, <<"]">>, <<"&", " ", "b">>, <<"$">>}
MathDelims == {<<"$">>, <<"$", "$">>}

\* the text the segments make
Concat(segs) == Join(<<>>, segs)

InitInline ==
    /\ Is(NewConverter)
    /\ line = None
    /\ nlines = 0
    /\ pc = "text"
    /\ \E pre \in PreContexts, d \in MathDelims, post \in PostContexts :
          \E c \in ChunkStrings(MathChunks, MaxMath) :
              inp = <<pre, d, c, d, post>>
    /\ res = None

\* content = self.convert_inline_formatting(content)
FormatInline ==
    /\ pc = "text"
    /\ res' = convert_inline_formatting(Concat(inp), TRUE)
    /\ pc' = "formatted"
    /\ UNCHANGED <<conv, line, nlines, inp>>

NextInline == FormatInline

SpecInline == InitInline /\ [][NextInline]_vars

(***************************************************************************)
(* Claims about convert_ch4_statistical_theory's inline formatter          *)
(* (SpecInline)                                                            *)
(***************************************************************************)

\* t holds one of the formatter's placeholder tokens
HasPlaceholder(t) ==
    \/ Contains(t, S_LITERALDOLLAR)
    \/ \E n \in 0..Len(t) :
          Contains(t, PhCode(n)) \/ Contains(t, PhDispMath(n)) \/ Contains(t, PhMath(n))

\* C8: for an input that holds no placeholder-shaped text, the returned
\* string holds no placeholder token.
C8_NoPlaceholderLeft ==
    (pc = "formatted" /\ ~Contains(Concat(inp), S_tildes)) => ~HasPlaceholder(res)

\* a context the math span is told apart from: no dollar sign, no backtick,
\* no backslash, no tilde
PlainContext(t) == \A k \in 1..Len(t) : t[k] \notin {"$", BT, "\\", "~"}

\* math content as C9 takes it: not empty, no dollar sign, no backtick, none
\* of & < >
MathContent(c) ==
    c # <<>> /\ \A k \in 1..Len(c) : c[k] \notin {"$", BT, "&", "<", ">"}

\* the node C9 expects for content c between the delimiters d
MathNode(d, c) ==
    IF d = <<"$">> THEN S_m \o c \o S_m_end ELSE S_me \o Strip(c) \o S_me_end

\* the text around the span is formatted as it is with one inert character
\* in the span's place, and the node stands where that character stands
RoundTrip(segs) ==
    res = Replace(convert_inline_formatting(segs[1] \o <<"~">> \o segs[5], TRUE),
                  <<"~">>, MathNode(segs[2], segs[3]))

S3_LITERAL_DOLLAR ==
    <<"_", "_", "_", "L", "I", "T", "E", "R", "A", "L", "_", "D", "O", "L",
      "L", "A", "R", "_", "_", "_">>
S_term == <<"<", "t", "e", "r", "m", ">">>
S_term_end == <<"<", "/", "t", "e", "r", "m", ">">>
S_dashes == <<" ", "-", "-", " ">>
S_mdash == <<" ", "<", "m", "d", "a", "s", "h", " ", "/", ">", " ">>

\* f"__CODE_{n}__", f"__MATH_{n}__"
Ph3Code(n) == <<"_", "_", "C", "O", "D", "E", "_">> \o Str(n) \o <<"_", "_">>
Ph3Math(n) == <<"_", "_", "M", "A", "T", "H", "_">> \o Str(n) \o <<"_", "_">>

\* re.sub(r'`([^`]+)`', save_code, text): the new text and code_parts
RECURSIVE Ch3_save_code(_, _, _)
RECURSIVE Ch3_save_code_at(_, _, _, _)
RECURSIVE Ch3_save_code_from(_, _, _, _)
Ch3_save_code(t, i, parts) ==
    IF i > Len(t) THEN [text |-> <<>>, parts |-> parts]
    ELSE Ch3_save_code_at(t, i, parts, ClassEnd(t, i, <<BT>>, {BT}, <<BT>>))

\* the substitution from i on, given the end j of the match at i
Ch3_save_code_at(t, i, parts, j) ==
    IF j > 0
    THEN Prepend(Ph3Code(Len(parts)),
                 Ch3_save_code(t, j + 1, Append(parts, SubSeq(t, i + 1, j - 1))))
    ELSE Ch3_save_code_from(t, i, parts,
        NextStart(LAMBDA k : ClassEnd(t, k, <<BT>>, {BT}, <<BT>>), i, Len(t)))

\* no match at i: the characters up to the next start n of a match are kept
Ch3_save_code_from(t, i, parts, n) ==
    Prepend(SubSeq(t, i, n - 1), Ch3_save_code(t, n, parts))

\* A match of \$\$(.*?)\$\$ starting at i: the index where the closing
\* dollars start, 0 when there is no match; the content may be empty
DisplayMathEnd(t, i) ==
    IF StartsAt(t, i, <<"$", "$">>) THEN Find(t, <<"$", "$">>, i + 2) ELSE 0

\* re.sub(r'\$\$(.*?)\$\$', save_display_math, text, flags=re.DOTALL)
RECURSIVE Ch3_save_display_math(_, _, _)
RECURSIVE Ch3_save_display_math_at(_, _, _, _)
RECURSIVE Ch3_save_display_math_from(_, _, _, _)
Ch3_save_display_math(t, i, parts) ==
    IF i > Len(t) THEN [text |-> <<>>, parts |-> parts]
    ELSE Ch3_save_display_math_at(t, i, parts, DisplayMathEnd(t, i))

\* the substitution from i on, given the end j of the match at i
Ch3_save_display_math_at(t, i, parts, j) ==
    IF j > 0
    THEN Prepend(Ph3Math(Len(parts)),
                 Ch3_save_display_math(t, j + 2,
                     Append(parts, S_me \o SubSeq(t, i + 2, j - 1) \o S_me_end)))
    ELSE Ch3_save_display_math_from(t, i, parts,
        NextStart(LAMBDA k : DisplayMathEnd(t, k), i, Len(t)))

\* no match at i: the characters up to the next start n of a match are kept
Ch3_save_display_math_from(t, i, parts, n) ==
    Prepend(SubSeq(t, i, n - 1), Ch3_save_display_math(t, n, parts))

\* re.sub(r'\$([^$]+)\$', save_inline_math, text)
RECURSIVE Ch3_save_inline_math(_, _, _)
RECURSIVE Ch3_save_inline_math_at(_, _, _, _)
RECURSIVE Ch3_save_inline_math_from(_, _, _, _)
Ch3_save_inline_math(t, i, parts) ==
    IF i > Len(t) THEN [text |-> <<>>, parts |-> parts]
    ELSE Ch3_save_inline_math_at(t, i, parts, ClassEnd(t, i, <<"$">>, {"$"}, <<"$">>))

\* the substitution from i on, given the end j of the match at i
Ch3_save_inline_math_at(t, i, parts, j) ==
    IF j > 0
    THEN Prepend(Ph3Math(Len(parts)),
                 Ch3_save_inline_math(t, j + 1,
                     Append(parts, S_m \o SubSeq(t, i + 1, j - 1) \o S_m_end)))
    ELSE Ch3_save_inline_math_from(t, i, parts,
        NextStart(LAMBDA k : ClassEnd(t, k, <<"$">>, {"$"}, <<"$">>), i, Len(t)))

\* no match at i: the characters up to the next start n of a match are kept
Ch3_save_inline_math_from(t, i, parts, n) ==
    Prepend(SubSeq(t, i, n - 1), Ch3_save_inline_math(t, n, parts))

\* (^|\s)\* at i: the index of the asterisk, 0 when there is no match
ItalicStarOpen(t, i) ==
    IF i = 1 /\ t[1] = "*" THEN 1
    ELSE IF t[i] \in WhiteSpace /\ i < Len(t) /\ t[i + 1] = "*" THEN i + 1
    ELSE 0

\* ([^*]+)\*($|\s) after the asterisk at star, j the next asterisk
ItalicStarClose(t, star, j) ==
    IF j <= star + 1 THEN [ok |-> FALSE]
    ELSE IF j = Len(t) \/ (j + 1 = Len(t) /\ t[j + 1] = "\n")
    THEN [ok |-> TRUE, star |-> star, close |-> j, end |-> j]
    ELSE IF t[j + 1] \in WhiteSpace
    THEN [ok |-> TRUE, star |-> star, close |-> j, end |-> j + 1]
    ELSE [ok |-> FALSE]

\* the match, given the opening asterisk
ItalicStarFrom(t, star) ==
    IF star = 0 THEN [ok |-> FALSE]
    ELSE ItalicStarClose(t, star, FindIn(t, {"*"}, star + 1))

\* A match of (^|\s)\*([^*]+)\*($|\s) starting at i: where the opening and
\* the closing asterisk stand and where the match ends; ok is FALSE when
\* there is no match.
ItalicStarAt(t, i) == ItalicStarFrom(t, ItalicStarOpen(t, i))

\* re.sub(r'(^|\s)\*([^*]+)\*($|\s)', r'\1<em>\2</em>\3', text)
RECURSIVE SubItalicStar(_, _)
RECURSIVE SubItalicStarAt(_, _, _)
RECURSIVE SubItalicStarFrom(_, _, _)
SubItalicStar(t, i) ==
    IF i > Len(t) THEN <<>>
    ELSE SubItalicStarAt(t, i, ItalicStarAt(t, i))

\* the substitution from i on, given the match m at i
SubItalicStarAt(t, i, m) ==
    IF m.ok
    THEN SubSeq(t, i, m.star - 1) \o S_em \o SubSeq(t, m.star + 1, m.close - 1)
             \o S_em_end \o SubSeq(t, m.close + 1, m.end)
             \o SubItalicStar(t, m.end + 1)
    ELSE SubItalicStarFrom(t, i,
        NextStart(LAMBDA k : IF ItalicStarAt(t, k).ok THEN 1 ELSE 0, i, Len(t)))

\* no match at i: the characters up to the next start n of a match are kept
SubItalicStarFrom(t, i, n) ==
    SubSeq(t, i, n - 1) \o SubItalicStar(t, n)

\* the same transforms with the double-asterisk one run first
Ch3_Emphasis_bold_first(t0) ==
    LET t1 == SubClass(t0, 1, <<"*", "*">>, {"*"}, <<"*", "*">>, S_em, S_em_end)
        t2 == SubClass(t1, 1, <<"*", "*", "*">>, {"*"}, <<"*", "*", "*">>, S_term, S_term_end)
        t3 == SubClass(t2, 1, <<"*", "*", "_">>, {"_"}, <<"_", "*", "*">>, S_term, S_term_end)
        t4 == SubItalicStar(t3, 1)
    IN  Replace(t4, S_dashes, S_mdash)

\* lines 67-77: term, bold, italics and dash, in the source's order
Ch3_Emphasis(t0) ==
    LET t1 == SubClass(t0, 1, <<"*", "*", "*">>, {"*"}, <<"*", "*", "*">>, S_term, S_term_end)
        t2 == SubClass(t1, 1, <<"*", "*", "_">>, {"_"}, <<"_", "*", "*">>, S_term, S_term_end)
        t3 == SubClass(t2, 1, <<"*", "*">>, {"*"}, <<"*", "*">>, S_em, S_em_end)
        t4 == SubItalicStar(t3, 1)
    IN  Replace(t4, S_dashes, S_mdash)

RECURSIVE Ch3_RestoreCode(_, _, _)
Ch3_RestoreCode(t, parts, i) ==
    IF i > Len(parts) THEN t
    ELSE Ch3_RestoreCode(Replace(t, Ph3Code(i - 1), S_c \o parts[i] \o S_c_end),
                         parts, i + 1)

RECURSIVE Ch3_RestoreMath(_, _, _)
Ch3_RestoreMath(t, parts, i) ==
    IF i > Len(parts) THEN t
    ELSE Ch3_RestoreMath(Replace(t, Ph3Math(i - 1), parts[i]), parts, i + 1)

\* lines 62-88: escaping, emphasis, then the restore passes, given what the
\* protection passes saved
Ch3_format_protected(text, math, code, escape) ==
    Ch3_RestoreMath(
        Replace(Ch3_RestoreCode(
                    Ch3_Emphasis(IF escape THEN escape_xml_text(text) ELSE text),
                    code, 1),
                S3_LITERAL_DOLLAR, <<"$">>),
        math, 1)

\* lines 60 on: m is what save_inline_math returned
Ch3_after_inline_math(m, code, escape) ==
    Ch3_format_protected(m.text, m.parts, code, escape)

\* lines 58 on: d is what save_display_math returned
Ch3_after_display_math(d, code, escape) ==
    Ch3_after_inline_math(Ch3_save_inline_math(d.text, 1, d.parts), code, escape)

\* lines 44 on: c is what save_code returned
Ch3_after_code(c, escape) ==
    Ch3_after_display_math(Ch3_save_display_math(c.text, 1, <<>>), c.parts, escape)

\* convert_ch3_intro_r.RmdToPreTeXt.convert_inline_formatting
Ch3_convert_inline_formatting(text, escape) ==
    Ch3_after_code(Ch3_save_code(Replace(text, S_esc_dollar, S3_LITERAL_DOLLAR), 1, <<>>),
                   escape)

(***************************************************************************)
(* SpecInline3: convert_ch3_intro_r's convert_inline_formatting on a text  *)
(* made of a context, three asterisks, a term, three asterisks and a       *)
(* context.  inp holds the five segments and the escape argument.          *)
(***************************************************************************)

MaxTerm == 3

\* the characters terms are made of
TermChars == {<<"a">>, <<"_">>, <<" ">>, <<"&">>}

S_stars == <<"*", "*", "*">>

\* contexts: plain text, an italic span, a bold span, an underscore
PreContexts3 ==
    {<<>>, <<"a", " ">>, <<"*", "a", "*", " ">>, <<"*", "*", "b", "*", "*", " ">>,
     <<"a", "&">>, <<"_">>}
PostContexts3 ==
    {<<>>, <<" ", "b">>, <<" ", "*", "a", "*">>, <<" ", "*", "*", "b", "*", "*">>,
     <<"&">>, <<"_">>}

InitInline3 ==
    /\ Is(NewConverter)
    /\ line = None
    /\ nlines = 0
    /\ pc = "text3"
    /\ \E pre \in PreContexts3, post \in PostContexts3, escape \in BOOLEAN :
          \E t \in ChunkStrings(TermChars, MaxTerm) \ {<<>>} :
              inp = <<pre, S_stars, t, S_stars, post, escape>>
    /\ res = None

\* text = self.convert_inline_formatting(text)   (escape=False for titles)
FormatInline3 ==
    /\ pc = "text3"
    /\ res' = Ch3_convert_inline_formatting(Concat(SubSeq(inp, 1, 5)), inp[6])
    /\ pc' = "formatted3"
    /\ UNCHANGED <<conv, line, nlines, inp>>

NextInline3 == FormatInline3

SpecInline3 == InitInline3 /\ [][NextInline3]_vars

(***************************************************************************)
(* Claims about convert_ch3_intro_r's inline formatter (SpecInline3)       *)
(***************************************************************************)

RECURSIVE Count(_, _, _)
\* the number of places from i on where pat stands in t
Count(t, pat, i) ==
    IF i > Len(t) THEN 0
    ELSE (IF StartsAt(t, i, pat) THEN 1 ELSE 0) + Count(t, pat, i + 1)

\* the term node for t: its text, with & < > written as entities when the
\* formatter escapes
TermNode(t, escape) ==
    S_term \o (IF escape THEN escape_xml_text(t) ELSE t) \o S_term_end

\* C10: a span ***t***, t without asterisks, yields exactly one term node
\* holding t and no emphasis node for that span: the result is the formatted
\* text before the span, the one term node, the formatted text after it, and
\* the node holds no <em>.
C10_TermPrecedence ==
    pc = "formatted3" =>
        LET pre == Ch3_convert_inline_formatting(inp[1], inp[6])
            post == Ch3_convert_inline_formatting(inp[5], inp[6])
            node == TermNode(inp[3], inp[6])
        IN  /\ res = pre \o node \o post
            /\ Count(res, S_term, 1) = 1
            /\ Count(node, S_em, 1) = 0
            /\ Count(res, S_em, 1) = Count(pre, S_em, 1) + Count(post, S_em, 1)

\* *a* ***a_&*** **b** : a term between an italic and a bold span
C10_Witness ==
    /\ pc = "formatted3"
    /\ inp[1] = <<"*", "a", "*", " ">>
    /\ inp[3] = <<"a", "_", "&">>
    /\ inp[5] = <<" ", "*", "*", "b", "*", "*">>
    /\ inp[6]
    /\ res = S_em \o <<"a">> \o S_em_end \o <<" ">>
             \o S_term \o <<"a", "_">> \o S_amp \o S_term_end
             \o <<" ">> \o S_em \o <<"b">> \o S_em_end

(***************************************************************************)
(* convert_ch3_intro_r.py: cross-references and footnotes                  *)
(***************************************************************************)

S3_xref_end == <<"\"", " ", "/", ">">>
S_Chapter == <<"C", "h", "a", "p", "t", "e", "r", " ">>
S_Section == <<"S", "e", "c", "t", "i", "o", "n", " ">>
S_Figure == <<"F", "i", "g", "u", "r", "e", " ">>
S_Table == <<"T", "a", "b", "l", "e", " ">>
S_fig == <<"f", "i", "g", ":">>
S_tab == <<"t", "a", "b", ":">>
S_fig_dash == <<"f", "i", "g", "-">>
S_table_dash == <<"t", "a", "b", "l", "e", "-">>

\* re.sub(open + r'([^)]+)\)',
\*        lambda m: f'<xref ref="{kind}{m.group(1).replace("_", "-")}" />', t)
RECURSIVE Ch3_SubRef(_, _, _, _)
RECURSIVE Ch3_SubRefAt(_, _, _, _, _)
RECURSIVE Ch3_SubRefFrom(_, _, _, _, _)
Ch3_SubRef(t, i, open, kind) ==
    IF i > Len(t) THEN <<>>
    ELSE Ch3_SubRefAt(t, i, open, kind, ClassEnd(t, i, open, {")"}, <<")">>))

\* the substitution from i on, given the end j of the match at i
Ch3_SubRefAt(t, i, open, kind, j) ==
    IF j > 0
    THEN S_xref \o kind \o Replace(SubSeq(t, i + Len(open), j - 1), <<"_">>, <<"-">>)
                \o S3_xref_end \o Ch3_SubRef(t, j + 1, open, kind)
    ELSE Ch3_SubRefFrom(t, i, open, kind,
        NextStart(LAMBDA k : ClassEnd(t, k, open, {")"}, <<")">>), i, Len(t)))

\* no match at i: the characters up to the next start n of a match are kept
Ch3_SubRefFrom(t, i, open, kind, n) ==
    SubSeq(t, i, n - 1) \o Ch3_SubRef(t, n, open, kind)

\* convert_ch3_intro_r.RmdToPreTeXt.convert_cross_refs
Ch3_convert_cross_refs(t0) ==
    LET t1 == Ch3_SubRef(t0, 1, S_Chapter \o S_ref, <<>>)
        t2 == Ch3_SubRef(t1, 1, S_Section \o S_ref, <<>>)
        t3 == Ch3_SubRef(t2, 1, S_Figure \o S_ref \o S_fig, S_fig_dash)
        t4 == Ch3_SubRef(t3, 1, S_ref \o S_fig, S_fig_dash)
        t5 == Ch3_SubRef(t4, 1, S_Table \o S_ref \o S_tab, S_table_dash)
        t6 == Ch3_SubRef(t5, 1, S_ref \o S_tab, S_table_dash)
    IN  Ch3_SubRef(t6, 1, S_ref, <<>>)

\* f"__FOOTNOTE_{n}__"
Ph3Footnote(n) ==
    <<"_", "_", "F", "O", "O", "T", "N", "O", "T", "E", "_">> \o Str(n) \o <<"_", "_">>

\* A match of \^\[(.+?)\](?!\() starting at i: the index of the closing
\* bracket, 0 when there is no match
FootnoteEnd(t, i) ==
    IF ~StartsAt(t, i, <<"^", "[">>) THEN 0
    ELSE First({j \in (i + 3)..Len(t) :
                   /\ t[j] = "]"
                   /\ (j = Len(t) \/ t[j + 1] # "(")
                   /\ \A k \in (i + 2)..(j - 1) : t[k] # "\n"})

\* re.sub(r'\^\[(.+?)\](?!\()', save_footnote, text)
RECURSIVE Ch3_save_footnote(_, _, _)
RECURSIVE Ch3_save_footnote_at(_, _, _, _)
RECURSIVE Ch3_save_footnote_from(_, _, _, _)
Ch3_save_footnote(t, i, parts) ==
    IF i > Len(t) THEN [text |-> <<>>, parts |-> parts]
    ELSE Ch3_save_footnote_at(t, i, parts, FootnoteEnd(t, i))

\* the substitution from i on, given the end j of the match at i
Ch3_save_footnote_at(t, i, parts, j) ==
    IF j > 0
    THEN Prepend(Ph3Footnote(Len(parts)),
                 Ch3_save_footnote(t, j + 1,
                     Append(parts,
                            S_fn \o Ch3_convert_inline_formatting(
                                        SubSeq(t, i + 2, j - 1), FALSE) \o S_fn_end)))
    ELSE Ch3_save_footnote_from(t, i, parts,
        NextStart(LAMBDA k : FootnoteEnd(t, k), i, Len(t)))

\* no match at i: the characters up to the next start n of a match are kept
Ch3_save_footnote_from(t, i, parts, n) ==
    Prepend(SubSeq(t, i, n - 1), Ch3_save_footnote(t, n, parts))

RECURSIVE Ch3_RestoreFootnotes(_, _, _)
Ch3_RestoreFootnotes(t, parts, i) ==
    IF i > Len(parts) THEN t
    ELSE Ch3_RestoreFootnotes(Replace(t, Ph3Footnote(i - 1), parts[i]), parts, i + 1)

\* process_text_line, lines 135-144: f is what the footnote pass returned
Ch3_after_footnotes(f) ==
    Ch3_RestoreFootnotes(
        Ch3_convert_cross_refs(Ch3_convert_inline_formatting(f.text, TRUE)),
        f.parts, 1)

\* convert_ch3_intro_r.RmdToPreTeXt.process_text_line
Ch3_process_text_line(text) == Ch3_after_footnotes(Ch3_save_footnote(text, 1, <<>>))

(***************************************************************************)
(* convert_ch3_intro_r.py: the converter.  Its object has the fields of    *)
(* Self; an entry of section_stack is a record of type and level; a line   *)
(* of output carries, last, its indentation in units of two spaces:        *)
(*   <<"open", tag, n>>         f'{indent}<{tag}>'                         *)
(*   <<"open_id", tag, id, n>>  f'{indent}<{tag} xml:id="{id}">'           *)
(*   <<"close", tag, n>>        f'{indent}</{tag}>'                        *)
(*   <<"title", t, n>>          f'{indent}<title>{t}</title>'              *)
(*   <<"p", t, n>>              f'{indent}<p>{t}</p>'                      *)
(*   <<"text", t, n>>           f'{indent}{t}'                             *)
(*   <<"lit", s, n>>            indent and a constant string s             *)
(***************************************************************************)

\* flush_paragraph, lines 149-155, n the indentation
Ch3_emit_paragraph(s, n) ==
    [Emit(s, << <<"lit", "<p>", n>>,
                <<"text", Ch3_process_text_line(Join(<<" ">>, s.paragraph_lines)), n + 1>>,
                <<"lit", "</p>", n>> >>)
        EXCEPT !.paragraph_lines = <<>>]

\* RmdToPreTeXt.flush_paragraph
Ch3_flush_paragraph(s) ==
    [(IF s.paragraph_lines # <<>>
      THEN Ch3_emit_paragraph(s, Len(s.section_stack) + 1)
      ELSE s)
        EXCEPT !.in_paragraph = FALSE]

\* flush_list, lines 164-168: the three lines of item k
Ch3_list_item(items, k, n) ==
    << <<"lit", "<li>", n + 1>>,
       <<"p", Ch3_process_text_line(items[k]), n + 2>>,
       <<"lit", "</li>", n + 1>> >>

\* flush_list, lines 162-170, n the indentation
Ch3_emit_list(s, n) ==
    [Emit(s, << <<"open", s.list_type, n>> >>
                 \o Join(<<>>, [k \in 1..Len(s.list_lines) |->
                                   Ch3_list_item(s.list_lines, k, n)])
                 \o << <<"close", s.list_type, n>> >>)
        EXCEPT !.list_lines = <<>>]

\* RmdToPreTeXt.flush_list
Ch3_flush_list(s) ==
    [(IF s.list_lines # <<>> THEN Ch3_emit_list(s, Len(s.section_stack) + 1) ELSE s)
        EXCEPT !.in_list = FALSE, !.list_type = NoListType]

\* flush_blockquote, lines 177-183, n the indentation
Ch3_emit_blockquote(s, n) ==
    [Emit(s, << <<"lit", "<blockquote>", n>>,
                <<"p", Ch3_process_text_line(Join(<<" ">>, s.blockquote_lines)), n + 1>>,
                <<"lit", "</blockquote>", n>> >>)
        EXCEPT !.blockquote_lines = <<>>]

\* RmdToPreTeXt.flush_blockquote
Ch3_flush_blockquote(s) ==
    [(IF s.blockquote_lines # <<>>
      THEN Ch3_emit_blockquote(s, Len(s.section_stack) + 1)
      ELSE s)
        EXCEPT !.in_blockquote = FALSE]

\* RmdToPreTeXt.close_sections_to_level
RECURSIVE close_sections_to_level(_, _)
close_sections_to_level(s, target_level) ==
    IF Len(s.section_stack) > target_level
    THEN close_sections_to_level(
             [s EXCEPT !.section_stack = SubSeq(@, 1, Len(@) - 1),
                       !.output = Append(@, <<"close",
                                              s.section_stack[Len(s.section_stack)].type,
                                              Len(s.section_stack)>>)],
             target_level)
    ELSE s

\* process_heading, lines 229-238: the node is opened and pushed
Ch3_open_section(s, section_type, target_level, xml_id, title) ==
    [s EXCEPT !.output =
                  @ \o << (IF xml_id # None
                           THEN <<"open_id", section_type,
                                  Replace(xml_id, <<"_">>, <<"-">>),
                                  Len(s.section_stack) + 1>>
                           ELSE <<"open", section_type, Len(s.section_stack) + 1>>),
                          <<"title", title, Len(s.section_stack) + 2>> >>,
              !.section_stack =
                  Append(@, [type |-> section_type, level |-> target_level])]

\* process_heading, lines 198-238: h is the match of the heading pattern
Ch3_heading(s, h) ==
    IF ~h.ok \/ h.level = 1 THEN s
    ELSE Ch3_open_section(close_sections_to_level(s, (h.level - 1) - 1),
                          TagOf(h.level), h.level - 1, h.xml_id,
                          Ch3_convert_inline_formatting(Strip(h.title), FALSE))

\* RmdToPreTeXt.process_heading
process_heading(s, ln) ==
    Ch3_heading(Ch3_flush_blockquote(Ch3_flush_list(Ch3_flush_paragraph(s))),
                heading_match(ln))

\* \s+ after the marker, followed by (.+)$ when content is asked for: b is
\* the text after the marker, w its leading whitespace
Ch3_item_rest(mlen, b, w, content) ==
    IF mlen > 0 /\ w >= 1 /\ (~content \/ From(b, w) # <<>> \/ w >= 2)
    THEN [ok |-> TRUE, text |-> IF From(b, w) # <<>> THEN From(b, w) ELSE From(b, w - 1)]
    ELSE [ok |-> FALSE]

\* the marker [-*] or \d+\. at the start of a: its length, 0 when there is
\* none; d is the number of leading digits
Ch3_marker_len(a, d, numbered) ==
    IF numbered
    THEN (IF d >= 1 /\ Len(a) > d /\ a[d + 1] = "." THEN d + 1 ELSE 0)
    ELSE (IF a # <<>> /\ a[1] \in {"-", "*"} THEN 1 ELSE 0)

\* a marker of length mlen, then the rest
Ch3_item_space(a, mlen, content) ==
    Ch3_item_rest(mlen, From(a, mlen), Span(From(a, mlen), WhiteSpace), content)

\* the line without its leading whitespace
Ch3_item_marker(a, numbered, content) ==
    Ch3_item_space(a, Ch3_marker_len(a, Span(a, DigitSet), numbered), content)

\* re.match of ^(\s*)[-*]\s+ (bullet) or ^(\s*)\d+\.\s+ (numbered), followed
\* by (.+)$ when content is asked for
Ch3_item_match(ln, numbered, content) ==
    Ch3_item_marker(From(ln, Span(ln, WhiteSpace)), numbered, content)

\* lines 420-422
Ch3_begin_quote(s) ==
    IF ~s.in_blockquote
    THEN [s EXCEPT !.in_blockquote = TRUE, !.blockquote_lines = <<>>]
    ELSE s

\* lines 424-426
Ch3_add_quote(s, quote_text) ==
    IF quote_text # <<>>
    THEN [s EXCEPT !.blockquote_lines = Append(@, quote_text)]
    ELSE s

\* convert, lines 416-428: a line that starts with '>'
Ch3_quote_line(s, ln) ==
    Ch3_add_quote(Ch3_begin_quote(Ch3_flush_list(Ch3_flush_paragraph(s))),
                  Strip(From(ln, 1)))

\* lines 439-442 and 455-458
Ch3_begin_list(s, type) ==
    IF ~s.in_list
    THEN [s EXCEPT !.in_list = TRUE, !.list_type = type, !.list_lines = <<>>]
    ELSE s

\* convert, lines 434-464: a list item of the given type
Ch3_list_line(s, item_text, type) ==
    [Ch3_begin_list(Ch3_flush_blockquote(Ch3_flush_paragraph(s)), type)
        EXCEPT !.list_lines = Append(@, item_text)]

\* lines 467-476: whether a line that is no list item ends the list; a blank
\* line does unless a list item follows it
Ch3_list_ends(ln, lines, i) ==
    IF Strip(ln) = <<>>
    THEN IF i + 1 < Len(lines)
         THEN /\ ~Ch3_item_match(RStrip(lines[i + 2]), FALSE, FALSE).ok
              /\ ~Ch3_item_match(RStrip(lines[i + 2]), TRUE, FALSE).ok
         ELSE TRUE
    ELSE TRUE

\* lines 487-491
Ch3_add_text(s, text) ==
    [(IF ~s.in_paragraph
      THEN [s EXCEPT !.in_paragraph = TRUE, !.paragraph_lines = <<>>]
      ELSE s)
        EXCEPT !.paragraph_lines = Append(@, text)]

\* lines 478-491: a blank line or a line of text
Ch3_blank_or_text(s, ln) ==
    IF Strip(ln) = <<>>
    THEN IF s.in_paragraph THEN Ch3_flush_paragraph(s) ELSE s
    ELSE IF ~s.in_list /\ ~s.in_blockquote THEN Ch3_add_text(s, Strip(ln))
    ELSE s

\* convert, lines 466-491: a line that is no list item, no quote, no heading
Ch3_other_line(s, ln, lines, i) ==
    Ch3_blank_or_text(IF s.in_list /\ Ch3_list_ends(ln, lines, i)
                      THEN Ch3_flush_list(s) ELSE s,
                      ln)

\* convert, lines 433-491: bullet and number are the matches of the two list
\* patterns
Ch3_list_or_other(s, ln, lines, i, bullet, number) ==
    IF bullet.ok THEN Ch3_list_line(s, bullet.text, "ul")
    ELSE IF number.ok THEN Ch3_list_line(s, number.text, "ol")
    ELSE Ch3_other_line(s, ln, lines, i)


(***************************************************************************)
(* convert_ch3_intro_r.py: fenced code blocks.  code_block_params is a     *)
(* dict from keys to values, both texts; the default True of echo is       *)
(* PyTrue.                                                                 *)
(***************************************************************************)

K_fig_cap == <<"f", "i", "g", ".", "c", "a", "p">>
K_label == <<"l", "a", "b", "e", "l">>
Quotes == {"\"", "'"}
S_include_graphics ==
    <<"i", "n", "c", "l", "u", "d", "e", "_", "g", "r", "a", "p", "h", "i", "c", "s", "(">>

\* ((?:[^"\\]|\\.)*)" from k on: the index of the closing quote, 0 when the
\* pattern does not match
RECURSIVE Ch3_fig_cap_end(_, _)
Ch3_fig_cap_end(t, k) ==
    IF k > Len(t) THEN 0
    ELSE IF t[k] = "\"" THEN k
    ELSE IF t[k] = "\\"
    THEN (IF k + 1 <= Len(t) /\ t[k + 1] # "\n" THEN Ch3_fig_cap_end(t, k + 2) ELSE 0)
    ELSE Ch3_fig_cap_end(t, k + 1)

\* \s*" from a on: the index after the opening quote, 0 when there is none
Ch3_fig_cap_quote(t, a) ==
    IF a <= Len(t) /\ t[a] = "\"" THEN a + 1 ELSE 0

\* =\s*" from a on
Ch3_fig_cap_equals(t, a) ==
    IF a <= Len(t) /\ t[a] = "="
    THEN Ch3_fig_cap_quote(t, a + 1 + Span(From(t, a), WhiteSpace))
    ELSE 0

\* fig\.cap\s*=\s*" at i: the index after the opening quote, 0 when the
\* pattern does not match at i
Ch3_fig_cap_open(t, i) ==
    IF StartsAt(t, i, K_fig_cap)
    THEN Ch3_fig_cap_equals(t, i + 7 + Span(From(t, i + 6), WhiteSpace))
    ELSE 0

\* the whole pattern at i: the index of the closing quote, 0 when the pattern
\* does not match at i
Ch3_fig_cap_close(t, i) ==
    IF Ch3_fig_cap_open(t, i) > 0 THEN Ch3_fig_cap_end(t, Ch3_fig_cap_open(t, i)) ELSE 0

\* re.search(r'fig\.cap\s*=\s*"((?:[^"\\]|\\.)*)"', params_str): the start of
\* the first match, 0 when there is none
Ch3_fig_cap_search(t) == First({i \in 1..Len(t) : Ch3_fig_cap_close(t, i) > 0})

\* lines 326-329: params and params_str after the caption is taken, i the
\* start of the match
Ch3_take_fig_cap(t, i) ==
    IF i > 0
    THEN [params |-> DictSet(EmptyDict, K_fig_cap,
                             SubSeq(t, Ch3_fig_cap_open(t, i), Ch3_fig_cap_close(t, i) - 1)),
          params_str |-> SubSeq(t, 1, i - 1) \o From(t, Ch3_fig_cap_close(t, i))]
    ELSE [params |-> EmptyDict, params_str |-> t]

\* ,\s*(?![^()]*\)) at k: a comma that no closing parenthesis follows before
\* an opening one
Ch3_is_separator(t, k, p) == t[k] = "," /\ (p = 0 \/ t[p] = "(")

Ch3_separator(t, i) ==
    First({k \in i..Len(t) : Ch3_is_separator(t, k, FindIn(t, {"(", ")"}, k + 1))})

\* re.split(r',\s*(?![^()]*\))', params_str), from i on
RECURSIVE Ch3_split_params(_, _)
Ch3_split_params_at(t, i, k) ==
    IF k = 0 THEN <<SubSeq(t, i, Len(t))>>
    ELSE <<SubSeq(t, i, k - 1)>>
             \o Ch3_split_params(t, k + 1 + Span(From(t, k), WhiteSpace))

Ch3_split_params(t, i) == Ch3_split_params_at(t, i, Ch3_separator(t, i))

\* lines 336-345: the stripped part of index j (from 0)
Ch3_param_part(params, part, j) ==
    IF part = <<>> THEN params
    ELSE IF Contains(part, <<"=">>) THEN FenceKeyValue(params, Split1(part, "="))
    ELSE IF j = 0 /\ DOMAIN params = {} THEN DictSet(params, K_label, part)
    ELSE params

\* lines 335-345: the loop over the parts, from the part k on
RECURSIVE Ch3_param_parts(_, _, _)
Ch3_param_parts(params, parts, k) ==
    IF k > Len(parts) THEN params
    ELSE Ch3_param_parts(Ch3_param_part(params, Strip(parts[k]), k - 1), parts, k + 1)

\* lines 333-347, m the caption taken
Ch3_parse_rest(m) == Ch3_param_parts(m.params, Ch3_split_params(m.params_str, 1), 1)

\* RmdToPreTeXt.parse_code_block_params
parse_code_block_params(params_str) ==
    Ch3_parse_rest(Ch3_take_fig_cap(params_str, Ch3_fig_cap_search(params_str)))

\* include_graphics\(["\']([^"\']+)["\']\) at i: the group, e the first
\* quote after the opening one; None when the pattern does not match at i
Ch3_graphics_group(t, i, e) ==
    IF e > i + 18 /\ e < Len(t) /\ t[e + 1] = ")" THEN SubSeq(t, i + 18, e - 1)
    ELSE None

Ch3_graphics_at(t, i) ==
    IF StartsAt(t, i, S_include_graphics) /\ i + 17 <= Len(t) /\ t[i + 17] \in Quotes
    THEN Ch3_graphics_group(t, i, FindIn(t, Quotes, i + 18))
    ELSE None

\* re.search(r'include_graphics\(["\']([^"\']+)["\']\)', code_text): group 1
\* of the first match from i on, None when there is none
RECURSIVE Ch3_graphics_search(_, _)
Ch3_graphics_search(t, i) ==
    IF i > Len(t) THEN None
    ELSE IF Ch3_graphics_at(t, i) # None THEN Ch3_graphics_at(t, i)
    ELSE Ch3_graphics_search(t, i + 1)

\* caption.strip('"\'')
RECURSIVE StripQuotes(_)
StripQuotes(t) ==
    IF t # <<>> /\ t[1] \in Quotes THEN StripQuotes(Tail(t))
    ELSE IF t # <<>> /\ t[Len(t)] \in Quotes THEN StripQuotes(SubSeq(t, 1, Len(t) - 1))
    ELSE t

\* RmdToPreTeXt.process_figure_caption
process_figure_caption(caption) ==
    Ch3_process_text_line(
        Replace(Replace(StripQuotes(caption), <<"\\", "\"">>, <<"\"">>),
                <<"\\", "'">>, <<"'">>))

\* lines 292-297: the source of the image
Ch3_image_src(include_graphics, label) ==
    IF include_graphics # None
    THEN Replace(include_graphics, <<".", "/", "i", "m", "g", "/">>,
                 <<"i", "m", "a", "g", "e", "s", "/">>)
    ELSE IF label # <<>>
    THEN <<"g", "e", "n", "e", "r", "a", "t", "e", "d", "/">> \o label
             \o <<".", "p", "n", "g">>
    ELSE <<"g", "e", "n", "e", "r", "a", "t", "e", "d", "/", "p", "l", "o", "t",
           ".", "p", "n", "g">>

\* lines 276 and 308-309, 316-317: the escaped lines of the block
Ch3_code_text_lines(code_lines, n) ==
    [k \in 1..Len(code_lines) |-> <<"text", escape_xml_text(code_lines[k]), n>>]

\* lines 281-300: the figure, n the indentation
Ch3_figure_lines(fig_cap, label, include_graphics, n) ==
    << (IF label # <<>>
        THEN <<"open_id", "figure", <<"f", "i", "g", "-">> \o label, n>>
        ELSE <<"open", "figure", n>>),
       <<"caption", process_figure_caption(fig_cap), n + 1>>,
       <<"image", Ch3_image_src(include_graphics, label), n + 1>>,
       <<"close", "figure", n>> >>

\* lines 303-311: the code in a remark when echo is true and not 'FALSE'
Ch3_remark_lines(echo, code_lines, n) ==
    IF echo # <<>> /\ echo # V_FALSE
    THEN << <<"lit", "<remark>", n>>,
            <<"lit", "<title>R Code</title>", n + 1>>,
            <<"lit", "<program language=\"r\">", n + 1>>,
            <<"lit", "<input>", n + 2>> >>
         \o Ch3_code_text_lines(code_lines, n + 3)
         \o << <<"lit", "</input>", n + 2>>,
               <<"lit", "</program>", n + 1>>,
               <<"lit", "</remark>", n>> >>
    ELSE <<>>

\* lines 313-319: a block without a caption
Ch3_program_lines(code_lines, n) ==
    << <<"lit", "<program language=\"r\">", n>>,
       <<"lit", "<input>", n + 1>> >>
    \o Ch3_code_text_lines(code_lines, n + 2)
    \o << <<"lit", "</input>", n + 1>>,
          <<"lit", "</program>", n>> >>

\* lines 259-319: the lines of the block
Ch3_code_block_output(params, code_lines, n) ==
    IF DictGet(params, K_fig_cap, <<>>) # <<>>
    THEN Ch3_figure_lines(DictGet(params, K_fig_cap, <<>>),
                          DictGet(params, K_label, <<>>),
                          Ch3_graphics_search(Join(<<"\n">>, code_lines), 1), n)
         \o Ch3_remark_lines(DictGet(params, K_echo, PyTrue), code_lines, n)
    ELSE Ch3_program_lines(code_lines, n)

\* RmdToPreTeXt.process_code_block
process_code_block(s) ==
    IF s.code_block_lines = <<>> THEN s
    ELSE [Emit(s, Ch3_code_block_output(s.code_block_params, s.code_block_lines,
                                        Len(s.section_stack) + 1))
             EXCEPT !.code_block_lines = <<>>, !.code_block_params = EmptyDict]

\* the group of re.match(r'```\{r\s*([^}]*)\}', line), w the whitespace
\* after the r and j the first closing brace after it; None when the pattern
\* does not match
Ch3_fence_group(ln, w, j) ==
    IF j > 0 THEN SubSeq(ln, 6 + w, j - 1) ELSE None

Ch3_fence_match(ln) ==
    IF StartsWith(ln, S6_fence_r)
    THEN Ch3_fence_group(ln, Span(From(ln, 5), WhiteSpace),
                         FindIn(ln, {"}"}, 6 + Span(From(ln, 5), WhiteSpace)))
    ELSE None

\* lines 394-399: the parameters of an R fence replace the ones held
Ch3_fence_params(d, group) ==
    IF group # None THEN parse_code_block_params(Strip(group)) ELSE d

\* lines 383-399: a fence outside a block opens one
Ch3_open_fence(s, ln) ==
    [s EXCEPT !.in_code_block = TRUE,
              !.code_block_lines = <<>>,
              !.code_block_params = Ch3_fence_params(@, Ch3_fence_match(ln))]

\* lines 381-402: a line that starts, stripped, with a fence
Ch3_fence_line(s, ln) ==
    IF ~s.in_code_block
    THEN Ch3_open_fence(Ch3_flush_blockquote(Ch3_flush_list(Ch3_flush_paragraph(s))), ln)
    ELSE process_code_block([s EXCEPT !.in_code_block = FALSE])

\* convert, lines 380-491: the line ln = lines[i].rstrip() (i counts from 0),
\* outside the YAML header
Ch3_loop_line(s, ln, lines, i) ==
    IF StartsWith(Strip(ln), S_fence) THEN Ch3_fence_line(s, ln)
    ELSE IF s.in_code_block
    THEN [s EXCEPT !.code_block_lines = Append(@, ln)]
    ELSE IF StartsWith(ln, <<"#">>) THEN process_heading(s, ln)
    ELSE IF StartsWith(ln, <<">">>) THEN Ch3_quote_line(s, ln)
    ELSE Ch3_list_or_other(IF s.in_blockquote THEN Ch3_flush_blockquote(s) ELSE s,
                           ln, lines, i,
                           Ch3_item_match(ln, FALSE, TRUE),
                           Ch3_item_match(ln, TRUE, TRUE))

\* convert, lines 363-493: the body of the loop for lines[i]
Ch3_loop_body(s, lines, i) == Ch3_loop_line(s, RStrip(lines[i + 1]), lines, i)

S_chapter_id == <<"c", "h", "3", "-", "i", "n", "t", "r", "o", "-", "r">>
S_chapter_title ==
    <<"G", "e", "t", "t", "i", "n", "g", " ", "s", "t", "a", "r", "t", "e", "d",
      " ", "w", "i", "t", "h", " ", "R">>

\* convert, lines 355-358
Ch3_convert_begin(s) ==
    Emit(s, << <<"lit", "<?xml version=\"1.0\" encoding=\"UTF-8\" ?>", 0>>,
               <<"lit", "", 0>>,
               <<"open_id", "chapter", S_chapter_id, 0>>,
               <<"title", S_chapter_title, 1>> >>)

\* convert, lines 495-504
Ch3_convert_end(s) ==
    Emit(close_sections_to_level(
             Ch3_flush_blockquote(Ch3_flush_list(Ch3_flush_paragraph(s))), 0),
         << <<"close", "chapter", 0>> >>)

(***************************************************************************)
(* SpecCh3: convert_ch3_intro_r.RmdToPreTeXt.convert on a file of at most  *)
(* MaxLines3 lines.  inp holds the lines read, nlines is the loop's index  *)
(* i, pc tells whether the loop is inside the YAML header (skip_yaml).     *)
(***************************************************************************)

MaxLines3 == 3

L3_yaml == <<"-", "-", "-">>
L3_h1 == <<"#", " ", "T">>
L3_h2 == <<"#", "#", " ", "A">>
L3_h3 == <<"#", "#", "#", " ", "B", " ", "{", "#", "b", "_", "c", "}">>
L3_h4 == <<"#", "#", "#", "#", " ", "C">>
L3_quote == <<">", " ", "q">>
L3_bullet == <<"-", " ", "a">>
L3_blank == <<>>
L3_text == <<"t", "\n">>
L3_fence == <<BT, BT, BT>>
L3_fence_r ==
    <<BT, BT, BT, "{", "r", " ", "l", ",", " ", "f", "i", "g", ".", "c", "a", "p", "=",
      "\"", "c", "\"", "}">>

Ch3Lines ==
    {L3_yaml, L3_h1, L3_h2, L3_h3, L3_h4, L3_quote, L3_bullet, L3_blank, L3_text,
     L3_fence, L3_fence_r}

\* the files of at most n lines
Files(L, n) == UNION {[1..k -> L] : k \in 0..n}

InitCh3 ==
    /\ Is(NewConverter)
    /\ line = None
    /\ nlines = 0
    /\ pc = "new3"
    /\ inp \in Files(Ch3Lines, MaxLines3)
    /\ res = None

\* convert, lines 355-361
Ch3ConvertBegin ==
    /\ pc = "new3"
    /\ Becomes(Ch3_convert_begin(Self))
    /\ pc' = "run3"
    /\ UNCHANGED <<line, nlines, fun>>

\* the line the loop is at
Ch3Current == RStrip(inp[nlines + 1])

\* convert, lines 366-375: a line of three dashes opens or closes the header
Ch3Yaml ==
    /\ pc \in {"run3", "yaml3"}
    /\ nlines < Len(inp)
    /\ Strip(Ch3Current) = L3_yaml
    /\ pc' = IF pc = "run3" THEN "yaml3" ELSE "run3"
    /\ line' = Ch3Current
    /\ nlines' = nlines + 1
    /\ UNCHANGED <<conv, fun>>

\* convert, lines 376-378: a line inside the header
Ch3Skip ==
    /\ pc = "yaml3"
    /\ nlines < Len(inp)
    /\ Strip(Ch3Current) # L3_yaml
    /\ line' = Ch3Current
    /\ nlines' = nlines + 1
    /\ UNCHANGED <<conv, pc, fun>>

\* convert, lines 380-493: a line outside the header
Ch3Line ==
    /\ pc = "run3"
    /\ nlines < Len(inp)
    /\ Strip(Ch3Current) # L3_yaml
    /\ Becomes(Ch3_loop_body(Self, inp, nlines))
    /\ line' = Ch3Current
    /\ nlines' = nlines + 1
    /\ UNCHANGED <<pc, fun>>

\* convert, lines 495-504
Ch3ConvertEnd ==
    /\ pc \in {"run3", "yaml3"}
    /\ nlines = Len(inp)
    /\ Becomes(Ch3_convert_end(Self))
    /\ pc' = "done3"
    /\ UNCHANGED <<line, nlines, fun>>

NextCh3 == Ch3ConvertBegin \/ Ch3Yaml \/ Ch3Skip \/ Ch3Line \/ Ch3ConvertEnd

SpecCh3 == InitCh3 /\ [][NextCh3]_vars


(***************************************************************************)
(* Claims about the fenced code blocks of convert_ch3_intro_r.py (SpecCh3) *)
(***************************************************************************)

\* C13: when the input ends inside a fence that was opened and never closed,
\* the step that ends convert emits every line collected in code_block_lines
\* as a line of a code block: none of them is discarded.
C13_UnclosedFenceEmitted ==
    [][(pc' = "done3" /\ in_code_block /\ code_block_lines # <<>>) =>
          \A k \in 1..Len(code_block_lines) :
              \E j \in (Len(output) + 1)..Len(output') :
                  /\ output'[j][1] = "text"
                  /\ output'[j][2] = escape_xml_text(code_block_lines[k])]_vars

\* the block that is open was opened by the fence line inp[k], an R fence
\* with the unnamed token l and a fig.cap: no fence and no header line was
\* read after it
OpenedByLabelledFence(k) ==
    /\ inp[k] = L3_fence_r
    /\ \A j \in (k + 1)..nlines : inp[j] \notin {L3_fence, L3_fence_r, L3_yaml}

\* C22: when the fence that closes a block with lines is read, and the block
\* was opened by an R fence whose parameter list starts with the unnamed
\* token l and carries a double-quoted fig.cap, the figure emitted has the
\* xml:id fig-l and, the block holding no include_graphics call, the image
\* source generated/l.png.
C22_LabelledFigure ==
    [][(/\ pc = "run3" /\ pc' = "run3" /\ nlines' = nlines + 1
        /\ in_code_block /\ code_block_lines # <<>>
        /\ StartsWith(Strip(Ch3Current), S_fence)
        /\ \E k \in 1..nlines : OpenedByLabelledFence(k))
       => \E j \in (Len(output) + 1)..(Len(output') - 1) :
             /\ output'[j][1] = "open_id"
             /\ output'[j][2] = "figure"
             /\ output'[j][3] = <<"f", "i", "g", "-", "l">>
             /\ \E m \in (j + 1)..Len(output') :
                   /\ output'[m][1] = "image"
                   /\ output'[m][2] = Ch3_image_src(None, <<"l">>)]_vars

(***************************************************************************)
(* convert_ch6_bayes.py: the inline formatter.  Its protection passes, its *)
(* emphasis and cross-reference substitutions are the ones of              *)
(* convert_ch4_statistical_theory.py; the literal-dollar placeholder, the  *)
(* restored code (not escaped) and the recursion of footnotes are its own. *)
(***************************************************************************)

\* f'<c>{code}</c>' for each saved code span
RECURSIVE Ch6_RestoreCode(_, _, _)
Ch6_RestoreCode(t, parts, i) ==
    IF i > Len(parts) THEN t
    ELSE Ch6_RestoreCode(Replace(t, PhCode(i - 1), S_c \o parts[i] \o S_c_end),
                         parts, i + 1)

\* lines 96-109: the four restore passes, in the source's order
Ch6_Restore(t, disp, math, code) ==
    Replace(Ch6_RestoreCode(RestoreMath(RestoreDispMath(t, disp, 1), math, 1), code, 1),
            S3_LITERAL_DOLLAR, <<"$">>)

RECURSIVE Ch6_convert_inline_formatting(_, _)
RECURSIVE Ch6_convert_footnote(_, _)
RECURSIVE Ch6_convert_footnote_at(_, _, _)
RECURSIVE Ch6_convert_footnote_from(_, _, _)

\* re.sub(r'\^\[([^\]]+)\]', convert_footnote, text)
Ch6_convert_footnote(t, i) ==
    IF i > Len(t) THEN <<>>
    ELSE Ch6_convert_footnote_at(t, i, ClassEnd(t, i, <<"^", "[">>, {"]"}, <<"]">>))

\* the substitution from i on, given the end j of the match at i
Ch6_convert_footnote_at(t, i, j) ==
    IF j > 0
    THEN S_fn \o Ch6_convert_inline_formatting(SubSeq(t, i + 2, j - 1), FALSE)
              \o S_fn_end \o Ch6_convert_footnote(t, j + 1)
    ELSE Ch6_convert_footnote_from(t, i,
        NextStart(LAMBDA k : ClassEnd(t, k, <<"^", "[">>, {"]"}, <<"]">>), i, Len(t)))

\* no match at i: the characters up to the next start n of a match are kept
Ch6_convert_footnote_from(t, i, n) ==
    SubSeq(t, i, n - 1) \o Ch6_convert_footnote(t, n)

\* lines 69-94 and 96-109: escaping, emphasis, cross-references, footnotes, then the
\* restore passes, given what the three protection passes saved
Ch6_format_protected(text, disp, math, code, escape) ==
    Ch6_Restore(Ch6_convert_footnote(
                    CrossRefs(Emphasis(IF escape THEN escape_xml_text(text) ELSE text)), 1),
                disp, math, code)

\* lines 57-66 on: m is what save_inline_math returned
Ch6_after_inline_math(m, disp, code, escape) ==
    Ch6_format_protected(m.text, disp, m.parts, code, escape)

\* lines 45-54 on: d is what save_display_math returned
Ch6_after_display_math(d, code, escape) ==
    Ch6_after_inline_math(save_inline_math(d.text, 1, <<>>), d.parts, code, escape)

\* lines 35-42 on: c is what save_code returned
Ch6_after_code(c, escape) ==
    Ch6_after_display_math(save_display_math(c.text, 1, <<>>), c.parts, escape)

\* RmdToPreTeXt.convert_inline_formatting
Ch6_convert_inline_formatting(text, escape) ==
    Ch6_after_code(save_code(Replace(text, S_esc_dollar, S3_LITERAL_DOLLAR), 1, <<>>),
                   escape)

(***************************************************************************)
(* convert_ch6_bayes.py: RmdToPreTeXt                                      *)
(*                                                                         *)
(* The object is the record Self; section_stack holds the kinds 'chapter', *)
(* 'section' and 'subsection'; list_type is 'unordered' or 'ordered'.      *)
(* Every output line has a fixed indentation, which the model leaves out:  *)
(*   <<"open", tag>>          f'<{tag}>'                                   *)
(*   <<"open_id", tag, id>>   f'<{tag} xml:id="{xml_id}">'                 *)
(*   <<"close", tag>>         f'</{tag}>'                                  *)
(*   <<"title", t>>           f'<title>{title}</title>'                    *)
(*   <<"p", t>>               f'<p>{content}</p>'                          *)
(*   <<"attribution", t>>     f'<attribution>{author_part}</attribution>'  *)
(*   <<"li", t>>              f'<li><p>{content}</p></li>'                 *)
(*   <<"text", t>>            the text t                                   *)
(*   <<"lit", s>>             a constant string s                          *)
(***************************************************************************)

K_output == <<"o", "u", "t", "p", "u", "t">>
S6_mdash == <<"<", "m", "d", "a", "s", "h", "/", ">">>
S6_mdash_spaced == <<" ">> \o S6_mdash \o <<" ">>

\* str.split(sep) for a separator of any length
RECURSIVE SplitOn(_, _)
SplitOnAt(t, sep, j) ==
    IF j = 0 THEN <<t>>
    ELSE <<SubSeq(t, 1, j - 1)>> \o SplitOn(From(t, j + Len(sep) - 1), sep)

SplitOn(t, sep) == SplitOnAt(t, sep, Find(t, sep, 1))

\* RmdToPreTeXt.flush_paragraph
Ch6_flush_paragraph(s) ==
    IF s.paragraph_lines # <<>>
    THEN [Emit(s, << <<"p", Ch6_convert_inline_formatting(
                                Join(<<" ">>, s.paragraph_lines), TRUE)>> >>)
             EXCEPT !.paragraph_lines = <<>>, !.in_paragraph = FALSE]
    ELSE s

\* flush_blockquote, lines 130-144: parts is content.split('<mdash/>')
Ch6_emit_blockquote(s, content, parts) ==
    [Emit(s, IF Len(parts) = 2
             THEN << <<"lit", "<blockquote>">>,
                     <<"p", Strip(parts[1])>>,
                     <<"attribution", Strip(parts[2])>>,
                     <<"lit", "</blockquote>">> >>
             ELSE << <<"lit", "<blockquote>">>,
                     <<"p", content>>,
                     <<"lit", "</blockquote>">> >>)
        EXCEPT !.blockquote_lines = <<>>, !.in_blockquote = FALSE]

\* flush_blockquote, lines 126-144: content is the formatted quote
Ch6_format_blockquote(s, content) ==
    Ch6_emit_blockquote(s, content, SplitOn(content, S6_mdash))

\* RmdToPreTeXt.flush_blockquote
Ch6_flush_blockquote(s) ==
    IF s.blockquote_lines # <<>>
    THEN Ch6_format_blockquote(s, Ch6_convert_inline_formatting(
                                      Join(<<" ">>, s.blockquote_lines), TRUE))
    ELSE s

\* line 151: 'ul' if self.list_type == 'unordered' else 'ol'
Ch6_ListTag(s) == IF s.list_type = "unordered" THEN "ul" ELSE "ol"

\* lines 154-156: the items of the list, formatted
Ch6_ListItems(items) ==
    [k \in 1..Len(items) |-> <<"li", Ch6_convert_inline_formatting(items[k], TRUE)>>]

\* RmdToPreTeXt.flush_list
Ch6_flush_list(s) ==
    IF s.list_lines = <<>> THEN s
    ELSE [Emit(s, << <<"open", Ch6_ListTag(s)>> >> \o Ch6_ListItems(s.list_lines)
                      \o << <<"close", Ch6_ListTag(s)>> >>)
             EXCEPT !.list_lines = <<>>, !.in_list = FALSE, !.list_type = NoListType]

\* flush_code_block, lines 165-184: the lines of the block
Ch6_code_lines(is_output, code_content) ==
    IF is_output
    THEN << <<"lit", "<pre>">>, <<"text", code_content>>, <<"lit", "</pre>">> >>
    ELSE << <<"lit", "<program language=\"r\">">>,
            <<"lit", "<input><![CDATA[">>,
            <<"text", code_content>>,
            <<"lit", "]]></input>">>,
            <<"lit", "</program>">> >>

\* RmdToPreTeXt.flush_code_block; a value of the dict is true when it is not
\* the empty string
Ch6_flush_code_block(s) ==
    IF s.code_block_lines # <<>>
    THEN [Emit(s, Ch6_code_lines(DictGet(s.code_block_params, K_output, <<>>) # <<>>,
                                 Join(<<"\n">>, s.code_block_lines)))
             EXCEPT !.code_block_lines = <<>>, !.in_code_block = FALSE,
                    !.code_block_params = EmptyDict]
    ELSE s

\* lines 113-160 as process_line calls them before a fence or a heading
Ch6_FlushBlocks(s) == Ch6_flush_list(Ch6_flush_blockquote(Ch6_flush_paragraph(s)))

\* lines 203-207: one stripped parameter of the fence
Ch6_FencePart(d, param) ==
    IF Contains(param, <<"=">>) THEN FenceKeyValue(d, Split1(param, "=")) ELSE d

RECURSIVE Ch6_FenceParts(_, _, _)
Ch6_FenceParts(d, parts, k) ==
    IF k > Len(parts) THEN d
    ELSE Ch6_FenceParts(Ch6_FencePart(d, Strip(parts[k])), parts, k + 1)

\* the parameters after the fence marker at i and w whitespace characters,
\* j the first closing brace from there on
Ch6_fence_group(t, i, w, j) ==
    IF w >= 1 /\ j > 0 THEN SubSeq(t, i + 5 + w, j - 1) ELSE None

\* the group of the pattern when it matches at i
Ch6_fence_match_at(t, i) ==
    IF StartsAt(t, i, S6_fence_r)
    THEN Ch6_fence_group(t, i, Span(From(t, i + 4), WhiteSpace),
                         FindIn(t, {"}"}, i + 5 + Span(From(t, i + 4), WhiteSpace)))
    ELSE None

\* re.search(r'```\{r\s+([^}]*)\}', line): group 1 of the first match from i
\* on, None when there is no match
RECURSIVE Ch6_fence_search(_, _)
Ch6_fence_search(t, i) ==
    IF i > Len(t) THEN None
    ELSE IF Ch6_fence_match_at(t, i) # None THEN Ch6_fence_match_at(t, i)
    ELSE Ch6_fence_search(t, i + 1)

\* lines 198-207: code_block_params after the fence line, params the group
Ch6_fence_params(d, params) ==
    IF params # None THEN Ch6_FenceParts(d, Split(params, ","), 1) ELSE d

\* lines 192-207: a fence that opens an R block
Ch6_open_r_fence(s, ln) ==
    [s EXCEPT !.in_code_block = TRUE,
              !.code_block_params = Ch6_fence_params(@, Ch6_fence_search(ln, 1))]

\* lines 209-215: a bare fence opens an output block
Ch6_open_plain_fence(s) ==
    [s EXCEPT !.in_code_block = TRUE,
              !.code_block_params = DictSet(@, K_output, PyTrue)]

\* lines 228-232: the text of a quote line, with ' -- ' made a dash
Ch6_quote_text(content) == Replace(content, S_dashes, S6_mdash_spaced)

\* lines 224-232: a line that starts with '> '
Ch6_begin_quote(s, ln) ==
    [s EXCEPT !.in_blockquote = TRUE,
              !.blockquote_lines = Append(@, Ch6_quote_text(Strip(From(ln, 2))))]

\* lines 233-240: a line that is not blank, while a quote is open
Ch6_continue_quote(s, ln) ==
    [s EXCEPT !.blockquote_lines =
         Append(@, IF StartsWith(ln, <<">">>)
                   THEN Ch6_quote_text(Strip(From(ln, 1)))
                   ELSE Strip(ln))]

\* the chapter pattern with \s+ taking w characters of the text after the
\* hash and the title group taking L of the rest, j the brace that closes
\* the id
Ch6_chapter_at(R, L, j) ==
    IF StartsAt(R, L + 1, <<"{", "#">>) /\ j > L + 3
    THEN [ok |-> TRUE, title |-> SubSeq(R, 1, L), xml_id |-> SubSeq(R, L + 3, j - 1)]
    ELSE [ok |-> FALSE]

\* the shortest title group, of at least L characters, that the id follows
RECURSIVE Ch6_chapter_title(_, _)
Ch6_chapter_title(R, L) ==
    IF L >= Len(R) THEN [ok |-> FALSE]
    ELSE IF Ch6_chapter_at(R, L, FindIn(R, {"}"}, L + 3)).ok
    THEN Ch6_chapter_at(R, L, FindIn(R, {"}"}, L + 3))
    ELSE Ch6_chapter_title(R, L + 1)

\* \s+ takes w characters, or fewer when the rest does not match
RECURSIVE Ch6_chapter_space(_, _)
Ch6_chapter_space(after, w) ==
    IF w < 1 THEN [ok |-> FALSE]
    ELSE IF Ch6_chapter_title(From(after, w), 1).ok
    THEN Ch6_chapter_title(From(after, w), 1)
    ELSE Ch6_chapter_space(after, w - 1)

\* re.match(r'#\s+(.+?)\{#([^}]+)\}', line)
Ch6_chapter_match(ln) == Ch6_chapter_space(From(ln, 1), Span(From(ln, 1), WhiteSpace))

\* lines 254-259: the chapter is opened and the stack set
Ch6_open_chapter(s, xml_id, title) ==
    [s EXCEPT !.output = @ \o << <<"open_id", "chapter", xml_id>>,
                                 <<"title", title>>, <<"lit", "">> >>,
              !.section_stack = <<"chapter">>]

\* lines 246-260: a line that starts with '# ', m the match
Ch6_chapter_line(s, m) ==
    IF m.ok
    THEN Ch6_open_chapter(s, m.xml_id, Ch6_convert_inline_formatting(Strip(m.title), TRUE))
    ELSE s

\* (?:\{#([^}]+)\})?$ on r, j the first closing brace when r starts with {#
Ch6_heading_tail_at(r, j) ==
    IF j > 3 /\ j = Len(r)
    THEN [ok |-> TRUE, id |-> SubSeq(r, 3, j - 1)]
    ELSE [ok |-> r = <<>>, id |-> None]

Ch6_heading_tail(r) ==
    Ch6_heading_tail_at(r, IF StartsWith(r, <<"{", "#">>) THEN FindIn(r, {"}"}, 3) ELSE 0)

\* the title group is the first L characters of R
Ch6_heading_at(R, L) ==
    [ok |-> TRUE, title |-> SubSeq(R, 1, L), xml_id |-> Ch6_heading_tail(From(R, L)).id]

\* the title group is the shortest one the tail matches after
Ch6_heading_title(R) ==
    Ch6_heading_at(R, First({k \in 1..Len(R) : Ch6_heading_tail(From(R, k)).ok}))

\* \s+ takes the w whitespace characters after the hashes, or gives the last
\* one back to the title when nothing else follows
Ch6_heading_space(after, w) ==
    IF w >= 1 /\ (From(after, w) # <<>> \/ w >= 2)
    THEN Ch6_heading_title(IF From(after, w) # <<>> THEN From(after, w)
                           ELSE From(after, w - 1))
    ELSE [ok |-> FALSE]

\* re.match(r'##\s+(.+?)(?:\{#([^}]+)\})?$', line) for n = 2 and
\* re.match(r'###\s+(.+?)(?:\{#([^}]+)\})?$', line) for n = 3
Ch6_heading_match(ln, n) == Ch6_heading_space(From(ln, n), Span(From(ln, n), WhiteSpace))

\* lines 273-276: while len(section_stack) > 2, pop, and emit the close tag
\* when the entry is a subsection
RECURSIVE Ch6_close_subsections(_)
Ch6_close_subsections(s) ==
    IF Len(s.section_stack) > 2
    THEN Ch6_close_subsections(
             [s EXCEPT !.section_stack = SubSeq(@, 1, Len(@) - 1),
                       !.output = IF s.section_stack[Len(s.section_stack)] = "subsection"
                                  THEN Append(@, <<"close", "subsection">>)
                                  ELSE @])
    ELSE s

\* lines 279-281: the previous section is closed
Ch6_close_section(s) ==
    IF Len(s.section_stack) > 1 /\ s.section_stack[Len(s.section_stack)] = "section"
    THEN [s EXCEPT !.section_stack = SubSeq(@, 1, Len(@) - 1),
                   !.output = Append(@, <<"close", "section">>)]
    ELSE s

\* lines 302-304: the previous subsection is closed
Ch6_close_subsection(s) ==
    IF Len(s.section_stack) > 2 /\ s.section_stack[Len(s.section_stack)] = "subsection"
    THEN [s EXCEPT !.section_stack = SubSeq(@, 1, Len(@) - 1),
                   !.output = Append(@, <<"close", "subsection">>)]
    ELSE s

\* lines 283-290 and 306-313: the node is opened and pushed
Ch6_open_section(s, tag, xml_id, title) ==
    [s EXCEPT !.output = @ \o << (IF xml_id # None
                                  THEN <<"open_id", tag, xml_id>>
                                  ELSE <<"open", tag>>),
                                 <<"title", title>>, <<"lit", "">> >>,
              !.section_stack = Append(@, tag)]

\* lines 262-291: a line that starts with '## ', m the match
Ch6_section_line(s, m) ==
    IF m.ok
    THEN Ch6_open_section(Ch6_close_section(Ch6_close_subsections(s)), "section",
                          m.xml_id, Ch6_convert_inline_formatting(Strip(m.title), TRUE))
    ELSE s

\* lines 293-316: a line that starts with '### ', m the match
Ch6_subsection_line(s, m) ==
    IF m.ok
    THEN Ch6_open_section(Ch6_close_subsection(s), "subsection",
                          m.xml_id, Ch6_convert_inline_formatting(Strip(m.title), TRUE))
    ELSE s

\* re.match(r'^\s*[\*\-]\s+', line) on a, the line without its leading
\* whitespace: the length of the match in a, 0 when there is none
Ch6_bullet_len(a) ==
    IF Len(a) >= 2 /\ a[1] \in {"*", "-"} /\ a[2] \in WhiteSpace
    THEN 1 + Span(From(a, 1), WhiteSpace) ELSE 0

\* re.match(r'^\s*\d+\.\s+', line) on a, d the number of its leading digits
Ch6_number_len(a, d) ==
    IF d >= 1 /\ Len(a) >= d + 2 /\ a[d + 1] = "." /\ a[d + 2] \in WhiteSpace
    THEN d + 1 + Span(From(a, d + 1), WhiteSpace) ELSE 0

\* lines 320-327 and 329-336: the item joins the list, which takes the type
\* when it opens
Ch6_add_item(s, type, content) ==
    [s EXCEPT !.in_list = TRUE,
              !.list_type = IF s.in_list THEN @ ELSE type,
              !.list_lines = Append(@, content)]

\* lines 319-336: a list item, n the length of the marker pattern's match
Ch6_list_item(s, type, a, n) ==
    Ch6_add_item(Ch6_flush_blockquote(Ch6_flush_paragraph(s)), type, Strip(From(a, n)))

\* line 339: self.list_lines[-1] += ' ' + line.strip()
Ch6_continue_item(s, ln) ==
    [s EXCEPT !.list_lines[Len(s.list_lines)] = @ \o <<" ">> \o Strip(ln)]

\* lines 356-360: the line joins the paragraph
Ch6_add_paragraph_line(s, ln) ==
    [(IF ~s.in_paragraph THEN [Ch6_flush_list(s) EXCEPT !.in_paragraph = TRUE] ELSE s)
        EXCEPT !.paragraph_lines = Append(@, Strip(ln))]

\* lines 337-360: a line that is no list item
Ch6_other_line(s, ln) ==
    IF s.in_list /\ Strip(ln) # <<>> /\ ~StartsWith(ln, <<" ">>)
       /\ ln[1] \notin {"*", "-"} \cup DigitSet
    THEN Ch6_continue_item(s, ln)
    ELSE IF s.in_list /\ Strip(ln) = <<>> THEN Ch6_flush_list(s)
    ELSE IF Strip(ln) = <<>> THEN Ch6_FlushBlocks(s)
    ELSE Ch6_add_paragraph_line(s, ln)

\* lines 319-360: a is the line without its leading whitespace
Ch6_list_or_other(s, ln, a) ==
    IF Ch6_bullet_len(a) > 0 THEN Ch6_list_item(s, "unordered", a, Ch6_bullet_len(a))
    ELSE IF Ch6_number_len(a, Span(a, DigitSet)) > 0
    THEN Ch6_list_item(s, "ordered", a, Ch6_number_len(a, Span(a, DigitSet)))
    ELSE Ch6_other_line(s, ln)

\* lines 246-360: the line is no part of a quote
Ch6_heading_or_list(s, ln) ==
    IF StartsWith(ln, <<"#", " ">>)
    THEN Ch6_chapter_line(Ch6_FlushBlocks(s), Ch6_chapter_match(ln))
    ELSE IF StartsWith(ln, <<"#", "#", " ">>)
    THEN Ch6_section_line(Ch6_FlushBlocks(s), Ch6_heading_match(ln, 2))
    ELSE IF StartsWith(ln, <<"#", "#", "#", " ">>)
    THEN Ch6_subsection_line(Ch6_FlushBlocks(s), Ch6_heading_match(ln, 3))
    ELSE Ch6_list_or_other(s, ln, From(ln, Span(ln, WhiteSpace)))

\* lines 224-360: the line is no part of a code block
Ch6_quote_or_other(s, ln) ==
    IF StartsWith(ln, <<">", " ">>)
    THEN Ch6_begin_quote(Ch6_flush_list(Ch6_flush_paragraph(s)), ln)
    ELSE IF s.in_blockquote /\ Strip(ln) # <<>> THEN Ch6_continue_quote(s, ln)
    ELSE IF s.in_blockquote /\ Strip(ln) = <<>> THEN Ch6_flush_blockquote(s)
    ELSE Ch6_heading_or_list(s, ln)

\* RmdToPreTeXt.process_line
Ch6_process_line(s, ln) ==
    IF StartsWith(ln, S6_fence_r) THEN Ch6_open_r_fence(Ch6_FlushBlocks(s), ln)
    ELSE IF Strip(ln) = S_fence /\ ~s.in_code_block
    THEN Ch6_open_plain_fence(Ch6_FlushBlocks(s))
    ELSE IF Strip(ln) = S_fence /\ s.in_code_block THEN Ch6_flush_code_block(s)
    ELSE IF s.in_code_block THEN [s EXCEPT !.code_block_lines = Append(@, ln)]
    ELSE Ch6_quote_or_other(s, ln)

\* convert, lines 368-369
Ch6_convert_begin(s) ==
    Emit(s, << <<"lit", "<?xml version=\"1.0\" encoding=\"UTF-8\" ?>">>, <<"lit", "">> >>)

\* convert, lines 383-388: while len(section_stack) > 1, pop and close
RECURSIVE Ch6_close_open_sections(_)
Ch6_close_open_sections(s) ==
    IF Len(s.section_stack) > 1
    THEN Ch6_close_open_sections(
             [s EXCEPT !.section_stack = SubSeq(@, 1, Len(@) - 1),
                       !.output =
                           IF s.section_stack[Len(s.section_stack)]
                                  \in {"subsection", "section"}
                           THEN Append(@, <<"close", s.section_stack[Len(s.section_stack)]>>)
                           ELSE @])
    ELSE s

\* convert, lines 391-392
Ch6_close_chapter(s) ==
    IF s.section_stack # <<>> /\ s.section_stack[1] = "chapter"
    THEN Emit(s, << <<"close", "chapter">> >>)
    ELSE s

\* convert, lines 377-392
Ch6_convert_end(s) ==
    Ch6_close_chapter(Ch6_close_open_sections(
        Ch6_flush_code_block(Ch6_FlushBlocks(s))))

(***************************************************************************)
(* Claims about convert_ch3_intro_r.RmdToPreTeXt.process_heading (SpecCh3) *)
(***************************************************************************)

\* C3: a heading at depth d closes every open node of depth >= d before its
\* own node is opened, so the open nodes are strictly deeper from the bottom
\* of section_stack to its top: no section, subsection or subsubsection is
\* open as a child of a node of the same or a deeper kind.
C3_NoSameOrDeeperParent ==
    \A k \in 1..(Len(section_stack) - 1) :
        section_stack[k].level < section_stack[k + 1].level

(***************************************************************************)
(* SpecCh6: convert_ch6_bayes.RmdToPreTeXt.convert on every sequence of at *)
(* most MaxLines6 lines drawn from Ch6Lines                                *)
(***************************************************************************)

MaxLines6 == 4

L6_h1 == <<"#", " ", "A", " ", "{", "#", "a", "}">>
L6_h1_plain == <<"#", " ", "A">>
L6_h2 == <<"#", "#", " ", "B">>
L6_h3 == <<"#", "#", "#", " ", "C", "{", "#", "c", "}">>
L6_fence_r == <<BT, BT, BT, "{", "r", " ", "e", "=", "F", "}">>
L6_fence == <<BT, BT, BT>>
L6_quote == <<">", " ", "q">>
L6_bullet == <<"-", " ", "a">>
L6_numbered == <<"1", ".", " ", "b">>
L6_blank == <<>>
L6_text == <<"t">>

Ch6Lines ==
    {L6_h1, L6_h1_plain, L6_h2, L6_h3, L6_fence_r, L6_fence, L6_quote, L6_bullet,
     L6_numbered, L6_blank, L6_text}

InitCh6 ==
    /\ Is(NewConverter)
    /\ line = None
    /\ nlines = 0
    /\ pc = "new6"
    /\ inp = None
    /\ res = None

\* convert up to its loop
Ch6ConvertBegin ==
    /\ pc = "new6"
    /\ Becomes(Ch6_convert_begin(Self))
    /\ pc' = "run6"
    /\ UNCHANGED <<line, nlines, fun>>

\* one iteration of convert's loop: process_line(line)
Ch6ProcessLine ==
    /\ pc = "run6"
    /\ nlines < MaxLines6
    /\ \E ln \in Ch6Lines :
          /\ Becomes(Ch6_process_line(Self, ln))
          /\ line' = ln
    /\ nlines' = nlines + 1
    /\ UNCHANGED <<pc, fun>>

\* convert after its loop
Ch6ConvertEnd ==
    /\ pc = "run6"
    /\ Becomes(Ch6_convert_end(Self))
    /\ pc' = "done6"
    /\ UNCHANGED <<line, nlines, fun>>

NextCh6 == Ch6ConvertBegin \/ Ch6ProcessLine \/ Ch6ConvertEnd

SpecCh6 == InitCh6 /\ [][NextCh6]_vars

(***************************************************************************)
(* Claims about convert_ch6_bayes.RmdToPreTeXt (SpecCh6)                   *)
(***************************************************************************)

\* the output lines that open and that close a node of the kind tag
OpensOf(out, tag) ==
    Cardinality({k \in 1..Len(out) : out[k][1] \in {"open", "open_id"} /\ out[k][2] = tag})
ClosesOf(out, tag) ==
    Cardinality({k \in 1..Len(out) : out[k][1] = "close" /\ out[k][2] = tag})

\* C4: when convert has finished, every chapter, section and subsection that
\* was opened has been closed exactly once: for each kind the output holds
\* as many close tags as open tags.
C4_EveryNodeClosed ==
    pc = "done6" =>
        \A tag \in {"chapter", "section", "subsection"} :
            OpensOf(output, tag) = ClosesOf(output, tag)

(***************************************************************************)
(* SpecFootnote: convert_ch4_statistical_theory's convert_inline_formatting*)
(* on a text that holds a footnote: a context, the opening ^[, a content   *)
(* of at most MaxFoot chunks, the closing ] and a context.                 *)
(***************************************************************************)

MaxFoot == 2

F_math == <<"$", "x", "$">>
F_emph == <<"*", "b", "*">>
F_open == <<"^", "[">>
F_close == <<"]">>
F_word == <<"a">>

FootChunks == {F_math, F_emph, F_open, F_close, F_word}
PreFoot == {<<>>, <<"a", " ">>}
PostFoot == {<<>>, <<"]">>, <<" ", "b">>}

\* the sequences of at most n chunks of C
ChunkSeqs(C, n) == UNION {[1..k -> C] : k \in 0..n}

InitFootnote ==
    /\ Is(NewConverter)
    /\ line = None
    /\ nlines = 0
    /\ pc = "footnote"
    /\ \E pre \in PreFoot, post \in PostFoot :
          \E chunks \in ChunkSeqs(FootChunks, MaxFoot) :
              inp = <<pre, F_open, chunks, F_close, post>>
    /\ res = None

\* the text the segments make
FootnoteText == inp[1] \o inp[2] \o Concat(inp[3]) \o inp[4] \o inp[5]

\* content = self.convert_inline_formatting(content)
FormatFootnote ==
    /\ pc = "footnote"
    /\ res' = convert_inline_formatting(FootnoteText, TRUE)
    /\ pc' = "formatted_fn"
    /\ UNCHANGED <<conv, line, nlines, inp>>

NextFootnote == FormatFootnote

SpecFootnote == InitFootnote /\ [][NextFootnote]_vars

(***************************************************************************)
(* Claims about the footnotes of convert_ch4_statistical_theory's inline   *)
(* formatter (SpecFootnote)                                                *)
(***************************************************************************)

\* the number of the chunks that are c
ChunkCount(chunks, c) == Cardinality({k \in 1..Len(chunks) : chunks[k] = c})

\* a footnote content of math, emphasis and words, with both a math span
\* and an emphasis span
MathAndEmphasis(chunks) ==
    /\ \A k \in 1..Len(chunks) : chunks[k] \in {F_math, F_emph, F_word}
    /\ ChunkCount(chunks, F_math) >= 1
    /\ ChunkCount(chunks, F_emph) >= 1

\* the part of t between the first <fn> and the first </fn>
FnBody(t) ==
    SubSeq(t, Find(t, S_fn, 1) + Len(S_fn), Find(t, S_fn_end, 1) - 1)

\* C11: the formatting ends with a result, the calls of
\* convert_inline_formatting nest at most 2 deep (the call on a footnote's
\* content finds no footnote), and a footnote whose content holds inline
\* math and emphasis is emitted as one <fn> element that holds each math
\* span as an <m> node and the emphasis as an <em> node.
C11_FootnoteDepth ==
    pc = "formatted_fn" =>
        /\ call_depth(FootnoteText, TRUE) <= 2
        /\ MathAndEmphasis(inp[3]) =>
              /\ Count(res, S_fn, 1) = 1
              /\ Count(res, S_fn_end, 1) = 1
              /\ Find(res, S_fn, 1) < Find(res, S_fn_end, 1)
              /\ Count(FnBody(res), S_m \o <<"x">> \o S_m_end, 1)
                     = ChunkCount(inp[3], F_math)
              /\ Count(FnBody(res), S_em, 1) >= 1
              /\ ~Contains(FnBody(res), <<"$">>)
              /\ ~HasPlaceholder(res)

\* a ^[$x$*b*] : the footnote holds a math span and an emphasis span, and
\* the formatting made a call for its content
C11_Witness ==
    /\ pc = "formatted_fn"
    /\ inp = << <<"a", " ">>, F_open, <<F_math, F_emph>>, F_close, <<>> >>
    /\ call_depth(FootnoteText, TRUE) = 2
    /\ res = <<"a", " ">> \o S_fn \o S_m \o <<"x">> \o S_m_end
                 \o S_em \o <<"b">> \o S_em_end \o S_fn_end

(***************************************************************************)
(* convert_anova_complete.py: escape_xml                                   *)
(***************************************************************************)

S_amp_lt == <<"&", "a", "m", "p", ";", "l", "t", ";">>
S_amp_gt == <<"&", "a", "m", "p", ";", "g", "t", ";">>

\* escape_xml, lines 13-15: the three replacements
escape_xml_entities(text) ==
    Replace(Replace(Replace(text, <<"&">>, S_amp), <<"<">>, S_lt), <<">">>, S_gt)

\* escape_xml: the replacements, then the two repairs of lines 17-18
escape_xml(text) ==
    Replace(Replace(escape_xml_entities(text), S_amp_lt, S_lt), S_amp_gt, S_gt)

(***************************************************************************)
(* SpecEscape: the two escaping functions applied to a plain text of at    *)
(* most MaxEsc characters, and then to their own result.  res holds the    *)
(* successive results, each with the text of escape_xml_text and the text  *)
(* of escape_xml.                                                          *)
(***************************************************************************)

MaxEsc == 3

EscChars == {<<"a">>, <<" ">>, <<"&">>, <<"<">>, <<">">>}

InitEscape ==
    /\ Is(NewConverter)
    /\ line = None
    /\ nlines = 0
    /\ pc = "plain"
    /\ inp \in ChunkStrings(EscChars, MaxEsc)
    /\ res = <<>>

\* text = self.escape_xml_text(text) and escape_xml(text), on the plain text
EscapeOnce ==
    /\ pc = "plain"
    /\ res' = << [text4 |-> escape_xml_text(inp), anova |-> escape_xml(inp)] >>
    /\ pc' = "escaped"
    /\ UNCHANGED <<conv, line, nlines, inp>>

\* the same calls on the escaped text
EscapeAgain ==
    /\ pc = "escaped"
    /\ res' = Append(res, [text4 |-> escape_xml_text(res[1].text4),
                            anova |-> escape_xml(res[1].anova)])
    /\ pc' = "escaped2"
    /\ UNCHANGED <<conv, line, nlines, inp>>

NextEscape == EscapeOnce \/ EscapeAgain

SpecEscape == InitEscape /\ [][NextEscape]_vars

(***************************************************************************)
(* Claims about the escaping functions (SpecEscape)                        *)
(***************************************************************************)

\* C12: escaping is idempotent on plain text: for both functions, escaping
\* the escaped text gives the escaped text again.
C12_EscapeIdempotent ==
    pc = "escaped2" => res[2] = res[1]

(***************************************************************************)
(* convert_ch5_anova2.py: process_inline_formatting                        *)
(***************************************************************************)

\* line 16: re.sub(r'\\@ref\(([^)]+)\)', r'<xref ref="\1"/>', text)
Ch5_cross_refs(text) == SubClass(text, 1, S_ref, {")"}, <<")">>, S_xref, S_xref_end)

\* line 23: a dollar that no dollar precedes or follows
Ch5_opens_math(t, i) ==
    /\ t[i] = "$"
    /\ (i = 1 \/ t[i - 1] # "$")
    /\ i + 1 <= Len(t)
    /\ t[i + 1] # "$"

\* lines 20-35: the loop over the characters, from the index i on
RECURSIVE Ch5_inline_math(_, _)
RECURSIVE Ch5_inline_math_at(_, _, _)
Ch5_inline_math(t, i) ==
    IF i > Len(t) THEN <<>>
    ELSE Ch5_inline_math_at(t, i, IF Ch5_opens_math(t, i)
                                  THEN FindIn(t, {"$"}, i + 1) ELSE 0)

\* lines 24-34: j is the closing dollar, 0 when the character at i opens
\* no math
Ch5_inline_math_at(t, i, j) ==
    IF j > 0
    THEN S_m \o SubSeq(t, i + 1, j - 1) \o S_m_end \o Ch5_inline_math(t, j + 1)
    ELSE <<t[i]>> \o Ch5_inline_math(t, i + 1)

\* A match of \*([^*\s][^*]*)\* starting at i: the index of the closing
\* asterisk, 0 when there is no match
Ch5_star_end(t, i) ==
    IF t[i] = "*" /\ i + 1 <= Len(t) /\ t[i + 1] \notin WhiteSpace \cup {"*"}
    THEN FindIn(t, {"*"}, i + 2)
    ELSE 0

\* line 44: re.sub(r'\*([^*\s][^*]*)\*', r'<em>\1</em>', text)
RECURSIVE Ch5_sub_star(_, _)
RECURSIVE Ch5_sub_star_at(_, _, _)
Ch5_sub_star(t, i) ==
    IF i > Len(t) THEN <<>>
    ELSE Ch5_sub_star_at(t, i, Ch5_star_end(t, i))

Ch5_sub_star_at(t, i, j) ==
    IF j > 0
    THEN S_em \o SubSeq(t, i + 1, j - 1) \o S_em_end \o Ch5_sub_star(t, j + 1)
    ELSE <<t[i]>> \o Ch5_sub_star(t, i + 1)

\* lines 38-44: the four emphasis substitutions, in the source's order
Ch5_emphasis(text) ==
    Ch5_sub_star(
        SubClass(
            SubClass(
                SubClass(text, 1, <<"*", "*", "_">>, {"*", "_"}, <<"_", "*", "*">>,
                         S_em, S_em_end),
                1, <<"*", "*">>, {"*"}, <<"*", "*">>, S_em, S_em_end),
            1, <<"_">>, {"_"}, <<"_">>, S_em, S_em_end),
        1)

RECURSIVE Ch5_process_inline_formatting(_, _)
RECURSIVE Ch5_replace_footnote(_, _)
RECURSIVE Ch5_replace_footnote_at(_, _, _)

\* lines 47-51: re.sub(r'\^\[([^\]]+)\]', replace_footnote, text)
Ch5_replace_footnote(t, i) ==
    IF i > Len(t) THEN <<>>
    ELSE Ch5_replace_footnote_at(t, i, ClassEnd(t, i, <<"^", "[">>, {"]"}, <<"]">>))

Ch5_replace_footnote_at(t, i, j) ==
    IF j > 0
    THEN S_fn \o Ch5_process_inline_formatting(SubSeq(t, i + 2, j - 1), FALSE) \o S_fn_end
             \o Ch5_replace_footnote(t, j + 1)
    ELSE <<t[i]>> \o Ch5_replace_footnote(t, i + 1)

\* process_inline_formatting
Ch5_process_inline_formatting(text, in_code) ==
    IF in_code THEN text
    ELSE Ch5_replace_footnote(
             Ch5_emphasis(Ch5_inline_math(Ch5_cross_refs(text), 1)), 1)

(***************************************************************************)
(* convert_ch5_anova2.py: convert_rmd_to_pretext.  The locals of the       *)
(* function are the fields of a record: output, in_r_code, r_code_buffer,  *)
(* para_buffer, section_stack (the levels of the open nodes) and i, the    *)
(* index of the loop.  A line of output carries its indentation, in units  *)
(* of two spaces, last:                                                    *)
(*   <<"open", tag, n>>          f'{indent}<{tag}>\n'                      *)
(*   <<"open_id", tag, id, n>>   f'{indent}<{tag} xml:id="{xml_id}">\n'    *)
(*   <<"close", tag, n>>         f'{indent}</{tag}>\n'                     *)
(*   <<"title", t, n>>           f'{indent}<title>{title}</title>\n\n'     *)
(*   <<"p", t, n>>               f'{indent}<p>{content}</p>\n'             *)
(*   <<"me", t, n>>              f'{indent}<me><![CDATA[{t}]]></me>\n'     *)
(*   <<"me_block", t, n>>        the same with t on lines of its own       *)
(*   <<"text", t, 0>>            the text t                                *)
(*   <<"lit", s, n>>             indent and a constant string s            *)
(***************************************************************************)

S5_fence_r == <<BT, BT, BT, "{", "r">>
S5_begin == <<"\\", "b", "e", "g", "i", "n", "{">>
S5_end == <<"\\", "e", "n", "d", "{">>
S5_dollars == <<"$", "$">>

\* the locals before the loop, lines 61-70
Ch5_new ==
    [output |-> << <<"lit", "<?xml version=\"1.0\" encoding=\"UTF-8\" ?>", 0>>,
                   <<"lit", "", 0>> >>,
     in_r_code |-> FALSE, r_code_buffer |-> <<>>, para_buffer |-> <<>>,
     section_stack |-> <<>>, i |-> 0]

\* get_indent
get_indent(s) == Len(s.section_stack) + 1

\* flush_paragraph, lines 75-83
Ch5_flush_paragraph(s) ==
    IF s.para_buffer # <<>>
    THEN [s EXCEPT !.output = Append(@, <<"p",
                                Ch5_process_inline_formatting(
                                    Join(<<" ">>, s.para_buffer), FALSE),
                                get_indent(s) + 1>>),
                   !.para_buffer = <<>>]
    ELSE s

\* \s+([^{]+)\{#([^}]+)\} on a, the text after the hashes: w the whitespace
\* at its start, k its first opening brace and j the first closing brace
\* after the '{#'
Ch5_id_match_at(a, w, k, j) ==
    IF w >= 1 /\ k > 0 /\ (k > w + 1 \/ w >= 2) /\ StartsAt(a, k, <<"{", "#">>)
       /\ j > k + 2
    THEN [ok |-> TRUE, title |-> Strip(SubSeq(a, w + 1, k - 1)),
          xml_id |-> SubSeq(a, k + 2, j - 1)]
    ELSE [ok |-> FALSE]

Ch5_id_match_brace(a, w, k) ==
    Ch5_id_match_at(a, w, k, IF k > 0 THEN FindIn(a, {"}"}, k + 2) ELSE 0)

\* re.match(r'#+\s+([^{]+)\{#([^}]+)\}', stripped), a the text after the
\* hashes; title is group 1 stripped
Ch5_id_match(a) == Ch5_id_match_brace(a, Span(a, WhiteSpace), FindIn(a, {"{"}, 1))

\* re.match(r'#+\s+(.+)$', stripped), a the text after the hashes and w the
\* whitespace at its start
Ch5_title_match_at(a, w) ==
    IF w >= 1 /\ (Len(a) > w \/ w >= 2)
    THEN [ok |-> TRUE, title |-> Strip(From(a, w)), xml_id |-> None]
    ELSE [ok |-> FALSE]

Ch5_title_match(a) == Ch5_title_match_at(a, Span(a, WhiteSpace))

\* lines 116-130: the match of a heading, the pattern with an id first
Ch5_heading_match(a) ==
    IF Ch5_id_match(a).ok THEN Ch5_id_match(a) ELSE Ch5_title_match(a)

\* lines 90-98: the chapter title on the first line
Ch5_chapter_line(s, m) ==
    [s EXCEPT !.output = IF m.ok
                         THEN @ \o << <<"open_id", "chapter", m.xml_id, 0>>,
                                      <<"title", m.title, 1>> >>
                         ELSE @,
              !.i = @ + 1]

\* lines 107-113: the nodes of a level >= level are popped and closed
RECURSIVE Ch5_close_sections(_, _)
Ch5_close_sections(s, level) ==
    IF s.section_stack # <<>> /\ s.section_stack[Len(s.section_stack)] >= level
    THEN Ch5_close_sections(
             [s EXCEPT !.section_stack = SubSeq(@, 1, Len(@) - 1),
                       !.output = Append(@, <<"close",
                                              IF Len(s.section_stack) > 1 \/ level > 2
                                              THEN "subsection" ELSE "section",
                                              Len(s.section_stack)>>)],
             level)
    ELSE s

\* lines 132-147: the node is opened and its level pushed
Ch5_open_section(s, level, tag, m) ==
    [s EXCEPT !.output = @ \o << (IF m.xml_id # None
                                  THEN <<"open_id", tag, m.xml_id, get_indent(s)>>
                                  ELSE <<"open", tag, get_indent(s)>>),
                                 <<"title",
                                   Ch5_process_inline_formatting(m.title, FALSE),
                                   get_indent(s) + 1>> >>,
              !.section_stack = Append(@, level),
              !.i = @ + 1]

\* lines 116-147: the heading after the close tags, m its match
Ch5_heading_open(s, level, m) ==
    IF m.ok
    THEN Ch5_open_section(s, level, IF level = 2 THEN "section" ELSE "subsection", m)
    ELSE [s EXCEPT !.i = @ + 1]

\* lines 101-147: a line that starts with ##
Ch5_heading_line(s, stripped, level) ==
    Ch5_heading_open(Ch5_close_sections(Ch5_flush_paragraph(s), level), level,
                     Ch5_heading_match(From(stripped, level)))

\* lines 150-155: a fence that opens an R block
Ch5_open_r_code(s) ==
    [Ch5_flush_paragraph(s) EXCEPT !.in_r_code = TRUE, !.r_code_buffer = <<>>,
                                   !.i = @ + 1]

\* lines 160-170: the block is emitted, code_content the joined buffer
Ch5_emit_r_code(s, code_content) ==
    [s EXCEPT !.in_r_code = FALSE,
              !.output = @ \o << <<"lit", "<program language=\"r\">", get_indent(s) + 1>>,
                                 <<"lit", "<input><![CDATA[", get_indent(s) + 2>>,
                                 <<"text",
                                   IF code_content # <<>>
                                      /\ code_content[Len(code_content)] = "\n"
                                   THEN code_content ELSE code_content \o <<"\n">>,
                                   0>>,
                                 <<"lit", "]]></input>", get_indent(s) + 2>>,
                                 <<"lit", "</program>", get_indent(s) + 1>> >>,
              !.r_code_buffer = <<>>,
              !.i = @ + 1]

\* lines 157-174: a line inside an R block
Ch5_r_code_line(s, ln, stripped) ==
    IF stripped = S_fence THEN Ch5_emit_r_code(s, Join(<<>>, s.r_code_buffer))
    ELSE [s EXCEPT !.r_code_buffer = Append(@, ln), !.i = @ + 1]

\* the index of the first line from i on whose stripped text satisfies
\* Ends, len(lines) when there is none (i >= 1)
Ch5_scan(lines, i, Ends(_)) ==
    IF \E k \in i..(Len(lines) - 1) : Ends(Strip(lines[k + 1]))
    THEN First({k \in i..(Len(lines) - 1) : Ends(Strip(lines[k + 1]))})
    ELSE Len(lines)

IsEnvEnd(c) == StartsWith(c, S5_end)
IsMathEnd(c) == c = S5_dollars
IsEnvContent(c) == c # <<>> /\ ~StartsWith(c, <<"\\">>)

\* lines 177-189: the lines i..e-1 of an environment join the paragraph, and
\* the loop goes on after the line e
Ch5_environment(s, lines, i, e) ==
    [s EXCEPT !.para_buffer =
                  @ \o SelectSeq([k \in 1..(e - i) |-> Strip(lines[i + k])], IsEnvContent),
              !.i = e + 1]

\* lines 192-198: display math on one line
Ch5_math_line(s, stripped) ==
    [s EXCEPT !.output = Append(@, <<"me",
                                     Strip(SubSeq(stripped, 3, Len(stripped) - 2)),
                                     get_indent(s) + 1>>),
              !.i = @ + 1]

\* lines 201-214: display math on the lines i..e-1
Ch5_math_block(s, lines, i, e) ==
    [s EXCEPT !.output = Append(@, <<"me_block",
                                     Join(<<"\n">>,
                                          [k \in 1..(e - i) |-> RStrip(lines[i + k])]),
                                     get_indent(s) + 1>>),
              !.i = e + 1]

\* lines 177-224: a line outside an R block that is no heading and no fence
Ch5_other_line(s, lines, stripped) ==
    IF StartsWith(stripped, S5_begin)
    THEN Ch5_environment(Ch5_flush_paragraph(s), lines, s.i + 1,
                         Ch5_scan(lines, s.i + 1, IsEnvEnd))
    ELSE IF Len(stripped) > 4 /\ StartsWith(stripped, S5_dollars)
            /\ StartsAt(stripped, Len(stripped) - 1, S5_dollars)
    THEN Ch5_math_line(Ch5_flush_paragraph(s), stripped)
    ELSE IF stripped = S5_dollars
    THEN Ch5_math_block(Ch5_flush_paragraph(s), lines, s.i + 1,
                        Ch5_scan(lines, s.i + 1, IsMathEnd))
    ELSE IF stripped = <<>> THEN [Ch5_flush_paragraph(s) EXCEPT !.i = @ + 1]
    ELSE [s EXCEPT !.para_buffer = Append(@, stripped), !.i = @ + 1]

\* lines 86-224: one pass of the loop, ln = lines[i]
Ch5_loop_line(s, lines, ln, stripped) ==
    IF StartsWith(stripped, <<"#", " ">>) /\ s.i = 0
    THEN Ch5_chapter_line(s, Ch5_id_match(From(stripped, 1)))
    ELSE IF StartsWith(stripped, <<"#", "#">>)
    THEN Ch5_heading_line(s, stripped, Span(stripped, {"#"}))
    ELSE IF StartsWith(stripped, S5_fence_r) THEN Ch5_open_r_code(s)
    ELSE IF s.in_r_code THEN Ch5_r_code_line(s, ln, stripped)
    ELSE Ch5_other_line(s, lines, stripped)

Ch5_loop_body(s, lines) ==
    Ch5_loop_line(s, lines, lines[s.i + 1], Strip(lines[s.i + 1]))

\* lines 230-236: the open nodes are popped and closed
RECURSIVE Ch5_close_all(_)
Ch5_close_all(s) ==
    IF s.section_stack # <<>>
    THEN Ch5_close_all(
             [s EXCEPT !.section_stack = SubSeq(@, 1, Len(@) - 1),
                       !.output = Append(@, <<"close",
                                              IF s.section_stack[Len(s.section_stack)] = 2
                                              THEN "section" ELSE "subsection",
                                              Len(s.section_stack)>>)])
    ELSE s

\* lines 227-238: after the loop
Ch5_convert_end(s) ==
    [Ch5_close_all(Ch5_flush_paragraph(s))
        EXCEPT !.output = Append(@, <<"close", "chapter", 0>>)]

(***************************************************************************)
(* SpecCh5: convert_ch5_anova2.convert_rmd_to_pretext on a file of at most *)
(* MaxLines5 lines.  inp holds the lines read; output, in_code_block,      *)
(* code_block_lines, paragraph_lines, section_stack and nlines hold the    *)
(* locals output, in_r_code, r_code_buffer, para_buffer, section_stack     *)
(* and i.                                                                  *)
(***************************************************************************)

MaxLines5 == 3

L5_chapter == <<"#", " ", "T", " ", "{", "#", "t", "}", "\n">>
L5_h2 == <<"#", "#", " ", "A", "\n">>
L5_h3 == <<"#", "#", "#", " ", "B", " ", "{", "#", "b", "}", "\n">>
L5_no_title == <<"#", "#", "\n">>
L5_text == <<"t", "\n">>
L5_blank == <<"\n">>
L5_fence_r == <<BT, BT, BT, "{", "r", "}", "\n">>
L5_fence == <<BT, BT, BT, "\n">>
L5_begin == <<"\\", "b", "e", "g", "i", "n", "{", "c", "}", "\n">>
L5_end == <<"\\", "e", "n", "d", "{", "c", "}", "\n">>
L5_dollars == <<"$", "$", "\n">>
L5_math == <<"$", "$", "x", "+", "y", "$", "$", "\n">>

Ch5Lines ==
    {L5_chapter, L5_h2, L5_h3, L5_no_title, L5_text, L5_blank, L5_fence_r, L5_fence,
     L5_begin, L5_end, L5_dollars, L5_math}

\* the locals of convert_rmd_to_pretext
Ch5Locals ==
    [output |-> output, in_r_code |-> in_code_block, r_code_buffer |-> code_block_lines,
     para_buffer |-> paragraph_lines, section_stack |-> section_stack, i |-> nlines]

\* the locals become s
Ch5Becomes(s) ==
    /\ output' = s.output
    /\ in_code_block' = s.in_r_code
    /\ code_block_lines' = s.r_code_buffer
    /\ paragraph_lines' = s.para_buffer
    /\ section_stack' = s.section_stack
    /\ nlines' = s.i
    /\ UNCHANGED <<code_block_params, in_paragraph, in_list, list_lines, list_type,
                   in_blockquote, blockquote_lines>>

\* lines 58-70: the file is read and the locals are set
InitCh5 ==
    /\ Is([NewConverter EXCEPT !.output = Ch5_new.output])
    /\ line = None
    /\ nlines = 0
    /\ pc = "run5"
    /\ inp \in Files(Ch5Lines, MaxLines5)
    /\ res = None

\* lines 85-224: one pass of the loop
Ch5Line ==
    /\ pc = "run5"
    /\ nlines < Len(inp)
    /\ Ch5Becomes(Ch5_loop_body(Ch5Locals, inp))
    /\ line' = inp[nlines + 1]
    /\ UNCHANGED <<pc, fun>>

\* lines 226-238: after the loop
Ch5ConvertEnd ==
    /\ pc = "run5"
    /\ nlines >= Len(inp)
    /\ Ch5Becomes([Ch5_convert_end(Ch5Locals) EXCEPT !.i = nlines])
    /\ pc' = "done5"
    /\ UNCHANGED <<line, fun>>

NextCh5 == Ch5Line \/ Ch5ConvertEnd

SpecCh5 == InitCh5 /\ [][NextCh5]_vars

(***************************************************************************)
(* Claims about convert_ch5_anova2.convert_rmd_to_pretext (SpecCh5)        *)
(***************************************************************************)

\* a line that starts, stripped, with ## and that neither heading pattern
\* matches
MalformedHeading(stripped) ==
    /\ StartsWith(stripped, <<"#", "#">>)
    /\ ~Ch5_heading_match(From(stripped, Span(stripped, {"#"}))).ok

\* C14: a pass of the loop over a line that starts with ## and has no title
\* text leaves section_stack as it was, adds no open tag and no close tag of
\* a chapter, section or subsection to the output, and goes on to the next
\* line.
C14_MalformedHeadingSkipped ==
    [][(pc = "run5" /\ pc' = "run5" /\ nlines < Len(inp)
        /\ MalformedHeading(Strip(inp[nlines + 1])))
       => /\ section_stack' = section_stack
          /\ nlines' = nlines + 1
          /\ \A k \in (Len(output) + 1)..Len(output') :
                 output'[k][1] \notin {"open", "open_id", "close"}]_vars

(***************************************************************************)
(* convert_ch_regression.py: RmdToPreTeXt.convert_inline_formatting.  Its  *)
(* code, inline-math, emphasis and cross-reference passes are the ones of  *)
(* convert_ch4_statistical_theory.py; the placeholder of an escaped dollar *)
(* and the test for CDATA in display math are its own.                     *)
(***************************************************************************)

S_array == <<"\\", "a", "r", "r", "a", "y">>

\* lines 49-52: the string save_display_math stores for a stripped content
Reg_DisplayMathNodeOf(content) ==
    IF NeedsCdata(content) \/ Contains(content, S_begin) \/ Contains(content, S_array)
    THEN S_me \o S_cdata \o content \o S_cdata_end \o S_me_end
    ELSE S_me \o content \o S_me_end

\* re.sub(r'\$\$(.+?)\$\$', save_display_math, text, flags=re.DOTALL)
RECURSIVE Reg_save_display_math(_, _, _)
RECURSIVE Reg_save_display_math_at(_, _, _, _)
RECURSIVE Reg_save_display_math_from(_, _, _, _)
Reg_save_display_math(t, i, parts) ==
    IF i > Len(t) THEN [text |-> <<>>, parts |-> parts]
    ELSE Reg_save_display_math_at(t, i, parts,
                                  LazyEnd(t, i, <<"$", "$">>, <<"$", "$">>, TRUE))

\* the substitution from i on, given the end j of the match at i
Reg_save_display_math_at(t, i, parts, j) ==
    IF j > 0
    THEN Prepend(PhDispMath(Len(parts)),
                 Reg_save_display_math(t, j + 2,
                     Append(parts, Reg_DisplayMathNodeOf(Strip(SubSeq(t, i + 2, j - 1))))))
    ELSE Reg_save_display_math_from(t, i, parts,
        NextStart(LAMBDA k : LazyEnd(t, k, <<"$", "$">>, <<"$", "$">>, TRUE), i, Len(t)))

\* no match at i: the characters up to the next start n of a match are kept
Reg_save_display_math_from(t, i, parts, n) ==
    Prepend(SubSeq(t, i, n - 1), Reg_save_display_math(t, n, parts))

\* lines 96-111: the four restore passes, in the source's order
Reg_Restore(t, disp, math, code) ==
    Replace(RestoreCode(RestoreMath(RestoreDispMath(t, disp, 1), math, 1), code, 1),
            S3_LITERAL_DOLLAR, <<"$">>)

RECURSIVE Reg_convert_inline_formatting(_, _)
RECURSIVE Reg_convert_footnote(_, _)
RECURSIVE Reg_convert_footnote_at(_, _, _)
RECURSIVE Reg_convert_footnote_from(_, _, _)

\* re.sub(r'\^\[([^\]]+)\]', convert_footnote, text)
Reg_convert_footnote(t, i) ==
    IF i > Len(t) THEN <<>>
    ELSE Reg_convert_footnote_at(t, i, ClassEnd(t, i, <<"^", "[">>, {"]"}, <<"]">>))

\* the substitution from i on, given the end j of the match at i
Reg_convert_footnote_at(t, i, j) ==
    IF j > 0
    THEN S_fn \o Reg_convert_inline_formatting(SubSeq(t, i + 2, j - 1), FALSE)
              \o S_fn_end \o Reg_convert_footnote(t, j + 1)
    ELSE Reg_convert_footnote_from(t, i,
        NextStart(LAMBDA k : ClassEnd(t, k, <<"^", "[">>, {"]"}, <<"]">>), i, Len(t)))

\* no match at i: the characters up to the next start n of a match are kept
Reg_convert_footnote_from(t, i, n) ==
    SubSeq(t, i, n - 1) \o Reg_convert_footnote(t, n)

\* lines 68-111: escaping, emphasis, cross-references, footnotes, then the
\* restore passes, given what the three protection passes saved
Reg_format_protected(text, disp, math, code, escape) ==
    Reg_Restore(Reg_convert_footnote(
                    CrossRefs(Emphasis(IF escape THEN escape_xml_text(text) ELSE text)), 1),
                disp, math, code)

\* lines 56-66 on: m is what save_inline_math returned
Reg_after_inline_math(m, disp, code, escape) ==
    Reg_format_protected(m.text, disp, m.parts, code, escape)

\* lines 44-54 on: d is what save_display_math returned
Reg_after_display_math(d, code, escape) ==
    Reg_after_inline_math(save_inline_math(d.text, 1, <<>>), d.parts, code, escape)

\* lines 37-42 on: c is what save_code returned
Reg_after_code(c, escape) ==
    Reg_after_display_math(Reg_save_display_math(c.text, 1, <<>>), c.parts, escape)

\* RmdToPreTeXt.convert_inline_formatting
Reg_convert_inline_formatting(text, escape) ==
    Reg_after_code(save_code(Replace(text, S_esc_dollar, S3_LITERAL_DOLLAR), 1, <<>>),
                   escape)

(***************************************************************************)
(* SpecReg: convert_ch_regression.RmdToPreTeXt.convert_inline_formatting   *)
(* on texts that hold at most two escaped dollars                          *)
(***************************************************************************)

MaxReg == 2

RegChunks == {<<"5">>, <<" ">>, <<"*">>, <<"_">>, <<"$">>}
EscapedDollars == {<<>>, S_esc_dollar}

\* two texts of at most MaxReg chunks, an escaped dollar or nothing after each
RegTexts ==
    {a \o d \o b \o e : a, b \in ChunkStrings(RegChunks, MaxReg), d, e \in EscapedDollars}

InitReg ==
    /\ Is(NewConverter)
    /\ line = None
    /\ nlines = 0
    /\ pc = "text_r"
    /\ inp \in RegTexts
    /\ res = None

\* convert_inline_formatting(text)
FormatReg ==
    /\ pc = "text_r"
    /\ res' = Reg_convert_inline_formatting(inp, TRUE)
    /\ pc' = "formatted_r"
    /\ UNCHANGED <<conv, line, nlines, inp>>

NextReg == FormatReg

SpecReg == InitReg /\ [][NextReg]_vars

(***************************************************************************)
(* Claims about convert_ch_regression's inline formatter (SpecReg)         *)
(***************************************************************************)

\* the text holds a dollar that no backslash precedes
HasBareDollar(t) == \E k \in 1..Len(t) : t[k] = "$" /\ (k = 1 \/ t[k - 1] # "\\")

\* C15: every escaped dollar of the input is one literal dollar of the
\* output.  No part of the word LITERAL_DOLLAR of its placeholder is left in
\* the output, and when the escaped dollars are the only dollars of the
\* input the output holds as many dollars as the input holds escaped ones,
\* none of them turned into math.
C15_EscapedDollarLiteral ==
    pc = "formatted_r" =>
        /\ ~Contains(res, <<"L", "I", "T", "E", "R", "A", "L">>)
        /\ (~HasBareDollar(inp) =>
               /\ Count(res, <<"$">>, 1) = Count(inp, S_esc_dollar, 1)
               /\ ~Contains(res, S_m))

(***************************************************************************)
(* SpecCode: convert_ch4_statistical_theory's convert_inline_formatting on *)
(* a text that holds one code span.  inp = <<pre, t, post>> stands for the *)
(* text pre `t` post.                                                      *)
(***************************************************************************)

MaxCode == 2

CodeChunks == {<<"a">>, <<"$">>, <<"*">>, <<"_">>, <<"&">>, <<" ">>}
PreCode == {<<>>, <<"*">>, <<"$">>, <<"^", "[">>, <<"x", " ">>}
PostCode == {<<>>, <<"*">>, <<"$">>, <<"]">>, <<" ", "y">>}

\* the contents of the span: a text of at most MaxCode chunks, then an
\* escaped dollar or nothing, then a letter or nothing
CodeTexts ==
    {a \o d \o b : a \in ChunkStrings(CodeChunks, MaxCode), d \in EscapedDollars,
                   b \in {<<>>, <<"b">>}} \ {<<>>}

InitCode ==
    /\ Is(NewConverter)
    /\ line = None
    /\ nlines = 0
    /\ pc = "code"
    /\ inp \in {<<pre, t, post>> : pre \in PreCode, t \in CodeTexts, post \in PostCode}
    /\ res = None

\* convert_inline_formatting(text)
FormatCode ==
    /\ pc = "code"
    /\ res' = convert_inline_formatting(inp[1] \o <<BT>> \o inp[2] \o <<BT>> \o inp[3], TRUE)
    /\ pc' = "formatted_code"
    /\ UNCHANGED <<conv, line, nlines, inp>>

NextCode == FormatCode

SpecCode == InitCode /\ [][NextCode]_vars

\* C16: the output holds the code span as <c>e(t)</c>, e(t) being t with its
\* & < > written as entities and every other character as it was, whatever
\* stands in t: an escaped dollar, a dollar, an asterisk, an underscore.
C16_CodeSpanVerbatim ==
    pc = "formatted_code" =>
        Contains(res, S_c \o escape_xml_text(inp[2]) \o S_c_end)

(***************************************************************************)
(* SpecCdata: convert_ch4_statistical_theory's convert_inline_formatting   *)
(* on a text that holds one math span.  inp = <<pre, delim, c, post>>      *)
(* stands for the text pre delim c delim post, delim a dollar or two.      *)
(***************************************************************************)

MaxCdata == 2

CdataChunks == {<<"x">>, <<"&">>, <<"<">>, <<">">>, <<" ">>, S_begin, S_cdata_end}
PreCdata == {<<>>, <<"a", " ">>}
PostCdata == {<<>>, <<" ", "b">>}

InitCdata ==
    /\ Is(NewConverter)
    /\ line = None
    /\ nlines = 0
    /\ pc = "math"
    /\ inp \in {<<pre, delim, c, post>> :
                   pre \in PreCdata, delim \in MathDelims,
                   c \in {t \in ChunkStrings(CdataChunks, MaxCdata) : Strip(t) # <<>>},
                   post \in PostCdata}
    /\ res = None

\* convert_inline_formatting(text)
FormatCdata ==
    /\ pc = "math"
    /\ res' = convert_inline_formatting(inp[1] \o inp[2] \o inp[3] \o inp[2] \o inp[4], TRUE)
    /\ pc' = "formatted_math"
    /\ UNCHANGED <<conv, line, nlines, inp>>

NextCdata == FormatCdata

SpecCdata == InitCdata /\ [][NextCdata]_vars

\* the text t holds one of & < >
HasSpecial(t) == \E k \in 1..Len(t) : t[k] \in {"&", "<", ">"}

\* the math node the claim describes for the content c between delim
ClaimedMathNode(delim, c) ==
    IF delim = <<"$">>
    THEN (IF HasSpecial(c)
          THEN S_m \o S_cdata \o c \o S_cdata_end \o S_m_end
          ELSE S_m \o c \o S_m_end)
    ELSE (IF HasSpecial(c) \/ Contains(c, S_begin)
          THEN S_me \o S_cdata \o Strip(c) \o S_cdata_end \o S_me_end
          ELSE S_me \o Strip(c) \o S_me_end)

\* t without its CDATA sections: each runs from <![CDATA[ to the first ]]>
\* after it
RECURSIVE OutsideCdata(_, _)
OutsideCdata(t, i) ==
    IF i > Len(t) THEN <<>>
    ELSE IF StartsAt(t, i, S_cdata)
    THEN LET j == Find(t, S_cdata_end, i + Len(S_cdata))
         IN  IF j = 0 THEN <<>> ELSE OutsideCdata(t, j + Len(S_cdata_end))
    ELSE <<t[i]>> \o OutsideCdata(t, i + 1)

\* t without the tags of the math nodes
WithoutMathTags(t) ==
    Replace(Replace(Replace(Replace(t, S_me_end, <<>>), S_me, <<>>), S_m_end, <<>>),
            S_m, <<>>)

\* C17: the content of inline math is emitted in a CDATA section exactly
\* when it holds & < or >, the content of display math exactly when it holds
\* & < > or \begin, and as it is otherwise; and outside the CDATA sections
\* of the output no & < > of the math content is left.
C17_CdataExactlyWhenSpecial ==
    pc = "formatted_math" =>
        /\ Contains(res, ClaimedMathNode(inp[2], inp[3]))
        /\ ~HasSpecial(WithoutMathTags(OutsideCdata(res, 1)))

(***************************************************************************)
(* SpecDollar: convert_ch4_statistical_theory's convert_inline_formatting  *)
(* on every text of at most MaxDollar dollars, letters and spaces          *)
(***************************************************************************)

MaxDollar == 4

DollarChunks == {<<"$">>, <<"x">>, <<" ">>}

InitDollar ==
    /\ Is(NewConverter)
    /\ line = None
    /\ nlines = 0
    /\ pc = "dollars"
    /\ inp \in ChunkStrings(DollarChunks, MaxDollar)
    /\ res = None

\* convert_inline_formatting(text)
FormatDollar ==
    /\ pc = "dollars"
    /\ res' = convert_inline_formatting(inp, TRUE)
    /\ pc' = "formatted_dollars"
    /\ UNCHANGED <<conv, line, nlines, inp>>

NextDollar == FormatDollar

SpecDollar == InitDollar /\ [][NextDollar]_vars

\* the matches <<i, j>> that re.sub(r'\$([^\$]+?)\$', ...) finds in t from i
\* on: the opening dollar at i, the closing one at j
RECURSIVE InlineMathMatches(_, _)
InlineMathMatches(t, i) ==
    IF i > Len(t) THEN {}
    ELSE LET j == ClassEnd(t, i, <<"$">>, {"$"}, <<"$">>)
         IN  IF j > 0 THEN {<<i, j>>} \cup InlineMathMatches(t, j + 1)
             ELSE InlineMathMatches(t, i + 1)

\* the text the inline-math substitution of line 68 runs on
InlineMathInput(text) ==
    save_display_math(
        save_code(Replace(text, S_esc_dollar, S_LITERALDOLLAR), 1, <<>>).text, 1, <<>>).text

\* a dollar stands next to the one at k
NextToDollar(t, k) ==
    \/ k > 1 /\ t[k - 1] = "$"
    \/ k < Len(t) /\ t[k + 1] = "$"

\* the text is $$, some characters that are no dollars, and one dollar
UnclosedDisplay(t) ==
    /\ Len(t) >= 4
    /\ StartsWith(t, <<"$", "$">>)
    /\ t[Len(t)] = "$"
    /\ \A k \in 3..(Len(t) - 1) : t[k] # "$"

\* C18: the inline-math substitution matches at no dollar that stands next
\* to another dollar, and a text that is an unclosed $$ followed by a single
\* dollar comes out as it went in, with no inline math made of it.
C18_NoMathAtDoubleDollar ==
    pc = "formatted_dollars" =>
        /\ \A m \in InlineMathMatches(InlineMathInput(inp), 1) :
               (~NextToDollar(InlineMathInput(inp), m[1])
                /\ ~NextToDollar(InlineMathInput(inp), m[2]))
        /\ (UnclosedDisplay(inp) => res = inp)

(***************************************************************************)
(* SpecInline5: convert_ch5_anova2.process_inline_formatting on a text     *)
(* that holds one inline-math span or one cross-reference.                 *)
(* inp = <<pre, kind, c, post>> stands for pre $c$ post when kind is       *)
(* "math" and for pre \@ref(c) post when kind is "ref".                    *)
(***************************************************************************)

MaxSpan == 3

SpanChunks == {<<"a">>, <<"_">>, <<"*">>, <<" ">>}
PreSpan == {<<>>, <<"x", " ">>}
PostSpan == {<<>>, <<" ", "y">>}

\* the text of the input
SpanText(pre, kind, c, post) ==
    IF kind = "math" THEN pre \o <<"$">> \o c \o <<"$">> \o post
    ELSE pre \o S_ref \o c \o <<")">> \o post

InitInline5 ==
    /\ Is(NewConverter)
    /\ line = None
    /\ nlines = 0
    /\ pc = "span"
    /\ inp \in {<<pre, kind, c, post>> :
                   pre \in PreSpan, kind \in {"math", "ref"},
                   c \in ChunkStrings(SpanChunks, MaxSpan) \ {<<>>}, post \in PostSpan}
    /\ res = None

\* process_inline_formatting(text)
FormatInline5 ==
    /\ pc = "span"
    /\ res' = Ch5_process_inline_formatting(SpanText(inp[1], inp[2], inp[3], inp[4]), FALSE)
    /\ pc' = "formatted_span"
    /\ UNCHANGED <<conv, line, nlines, inp>>

NextInline5 == FormatInline5

SpecInline5 == InitInline5 /\ [][NextInline5]_vars

\* C19: the content c of inline math is emitted unchanged inside <m> and
\* </m> and the id of a cross-reference unchanged inside <xref ref="..."/>,
\* whatever underscores and asterisks they hold: no emphasis tag is put in
\* them.
C19_SpanContentUnchanged ==
    pc = "formatted_span" =>
        IF inp[2] = "math"
        THEN Contains(res, S_m \o inp[3] \o S_m_end)
        ELSE Contains(res, S_xref \o inp[3] \o S_xref_end)

(***************************************************************************)
(* SpecFoot3: convert_ch3_intro_r.RmdToPreTeXt.process_text_line on a text *)
(* that holds one footnote.  inp = <<pre, c, post>> stands for the text    *)
(* pre ^[c] post.                                                          *)
(***************************************************************************)

MaxFoot3 == 3

Foot3Chunks == {<<"a">>, <<"&">>, <<"<">>, <<">">>, <<" ">>}
PreFoot3 == {<<>>, <<"x", " ">>, <<"&">>}
PostFoot3 == {<<>>, <<" ", "y">>, <<"<">>}

InitFoot3 ==
    /\ Is(NewConverter)
    /\ line = None
    /\ nlines = 0
    /\ pc = "footnote3"
    /\ inp \in {<<pre, c, post>> :
                   pre \in PreFoot3,
                   c \in ChunkStrings(Foot3Chunks, MaxFoot3) \ {<<>>},
                   post \in PostFoot3}
    /\ res = None

\* process_text_line(text)
FormatFoot3 ==
    /\ pc = "footnote3"
    /\ res' = Ch3_process_text_line(inp[1] \o <<"^", "[">> \o inp[2] \o <<"]">> \o inp[3])
    /\ pc' = "formatted_fn3"
    /\ UNCHANGED <<conv, line, nlines, inp>>

NextFoot3 == FormatFoot3

SpecFoot3 == InitFoot3 /\ [][NextFoot3]_vars

\* C20: the footnote is emitted as <fn>, the content as process_text_line
\* gives it outside a footnote, </fn>: the & < > of the content are written
\* as the entities &amp; &lt; &gt;.
C20_FootnoteEscaped ==
    pc = "formatted_fn3" =>
        Contains(res, S_fn \o Ch3_process_text_line(inp[2]) \o S_fn_end)
(***************************************************************************)
(* SpecRef3: convert_ch3_intro_r.RmdToPreTeXt.convert_cross_refs on a text *)
(* that holds one cross-reference directive.  inp = <<pre, cat, I, post>>  *)
(* stands for the text pre \@ref(cat I) post.                              *)
(***************************************************************************)

MaxRef3 == 2

Ref3Chars == {<<"a">>, <<"_">>, <<"b">>}
PreRef3 == {<<>>, <<"s", "e", "e", " ">>, S_Chapter, S_Section, S_Figure, S_Table}
CatRef3 == {<<>>, S_fig, S_tab}
PostRef3 == {<<>>, <<".">>, <<" ", "(", "b", ")">>}

InitRef3 ==
    /\ Is(NewConverter)
    /\ line = None
    /\ nlines = 0
    /\ pc = "ref3"
    /\ inp \in {<<pre, cat, I, post>> :
                   pre \in PreRef3,
                   cat \in CatRef3,
                   I \in ChunkStrings(Ref3Chars, MaxRef3) \ {<<>>},
                   post \in PostRef3}
    /\ res = None

\* convert_cross_refs(text)
FormatRef3 ==
    /\ pc = "ref3"
    /\ res' = Ch3_convert_cross_refs(inp[1] \o S_ref \o inp[2] \o inp[3] \o <<")">> \o inp[4])
    /\ pc' = "formatted_ref3"
    /\ UNCHANGED <<conv, line, nlines, inp>>

NextRef3 == FormatRef3

SpecRef3 == InitRef3 /\ [][NextRef3]_vars

\* the target the directive \@ref(cat I) stands for
RefTarget(cat, I) ==
    (IF cat = S_fig THEN S_fig_dash ELSE IF cat = S_tab THEN S_table_dash ELSE <<>>)
        \o Replace(I, <<"_">>, <<"-">>)

\* C21: the directive yields exactly one reference marker, whose target is
\* fig- and n(I) for \@ref(fig:I), table- and n(I) for \@ref(tab:I) and n(I)
\* for any other \@ref(I), n replacing every underscore by a hyphen.
C21_RefTarget ==
    pc = "formatted_ref3" =>
        /\ Count(res, S_xref, 1) = 1
        /\ Contains(res, S_xref \o RefTarget(inp[2], inp[3]) \o S3_xref_end)
(***************************************************************************)
(* SpecFence4: convert_ch4_statistical_theory.RmdToPreTeXt.convert on      *)
(* every file of at most MaxFence4 lines drawn from Fence4Lines, the fence *)
(* lines with and without parameters.  inp holds the file and nlines the   *)
(* number of lines read.                                                   *)
(***************************************************************************)

MaxFence4 == 4

S_echo_FALSE == <<"e", "c", "h", "o", "=", "F", "A", "L", "S", "E">>
S_eval_FALSE == <<"e", "v", "a", "l", "=", "F", "A", "L", "S", "E">>

F4_r == <<BT, BT, BT, "{", "r", "}">>
F4_echo == <<BT, BT, BT, "{", "r", " ">> \o S_echo_FALSE \o <<"}">>
F4_comma_echo == <<BT, BT, BT, "{", "r", ",", " ">> \o S_echo_FALSE \o <<"}">>
F4_label_eval == <<BT, BT, BT, "{", "r", " ", "l", ",", " ">> \o S_eval_FALSE \o <<"}">>
F4_label_true == <<BT, BT, BT, "{", "r", " ", "l", ",", " ", "e", "c", "h", "o", "=", "T", "}">>
F4_code == <<"x">>

Fence4Lines ==
    {F4_r, F4_echo, F4_comma_echo, F4_label_eval, F4_label_true, L_fence, F4_code,
     L_h2, L_blank}

InitFence4 ==
    /\ Is(NewConverter)
    /\ line = None
    /\ nlines = 0
    /\ pc = "new_f4"
    /\ inp \in Files(Fence4Lines, MaxFence4)
    /\ res = None

\* convert up to its loop
Fence4Begin ==
    /\ pc = "new_f4"
    /\ Becomes(convert_begin(Self))
    /\ pc' = "run_f4"
    /\ UNCHANGED <<line, nlines, fun>>

\* one iteration of convert's loop: process_line(line)
Fence4Line ==
    /\ pc = "run_f4"
    /\ nlines < Len(inp)
    /\ Becomes(process_line(Self, inp[nlines + 1]))
    /\ line' = inp[nlines + 1]
    /\ nlines' = nlines + 1
    /\ UNCHANGED <<pc, fun>>

\* convert after its loop
Fence4End ==
    /\ pc = "run_f4"
    /\ nlines = Len(inp)
    /\ Becomes(convert_end(Self))
    /\ pc' = "done_f4"
    /\ UNCHANGED <<line, nlines, fun>>

NextFence4 == Fence4Begin \/ Fence4Line \/ Fence4End

SpecFence4 == InitFence4 /\ [][NextFence4]_vars

\* the converter after the first k lines of the file
RECURSIVE AfterLines4(_)
AfterLines4(k) ==
    IF k = 0 THEN convert_begin(NewConverter)
    ELSE process_line(AfterLines4(k - 1), inp[k])

\* the block that is open was opened by the fence line inp[k]: the line was
\* read outside a block and no fence line was read after it
OpenedBy4(k) ==
    /\ StartsWith(inp[k], S_fence)
    /\ ~AfterLines4(k - 1).in_code_block
    /\ \A j \in (k + 1)..nlines : ~StartsWith(inp[j], S_fence)

\* the fence-open line is an R block whose parameter list holds echo=FALSE
\* or eval=FALSE
IsRFence(ln) == StartsWith(Strip(From(ln, 3)), <<"{", "r">>)
HidesCode(ln) == Contains(ln, S_echo_FALSE) \/ Contains(ln, S_eval_FALSE)

\* the first line of the rendering the fence-open line ln stands for
RenderingOf(ln) ==
    IF IsRFence(ln) /\ ~HidesCode(ln) THEN <<"lit", "<program language=\"r\">">>
    ELSE <<"lit", "<console>">>

\* C23: when the fence that closes a block with lines is read, the block is
\* emitted as captured output (<console>) when its fence-open line is an R
\* fence that holds echo=FALSE or eval=FALSE, with or without a label or a
\* comma after the r, or is a fence with no brace tag, and as executable
\* source (<program language="r">) for every other R fence.
C23_FenceRendering ==
    [][(/\ pc = "run_f4" /\ nlines' = nlines + 1
        /\ StartsWith(line', S_fence)
        /\ in_code_block /\ code_block_lines # <<>>)
       => \A k \in 1..nlines :
             OpenedBy4(k) =>
                 /\ Len(output') = Len(output) + 3
                 /\ output'[Len(output) + 1] = RenderingOf(inp[k])]_vars
\* C30: a line that starts with the fence marker and is read while a fenced
\* block is open ends fenced mode, whatever the block holds, a block with no
\* lines included: in_code_block is false and code_block_params is empty
\* after the call.
C30_FenceCloseEndsBlock ==
    [][(/\ pc = "run_f4" /\ nlines' = nlines + 1
        /\ StartsWith(line', S_fence)
        /\ in_code_block)
       => (~in_code_block' /\ code_block_params' = EmptyDict)]_vars
(***************************************************************************)
(* SpecQuote6: convert_ch6_bayes.RmdToPreTeXt.convert on every file of at  *)
(* most MaxQuote6 lines drawn from Quote6Lines, the quote lines with and   *)
(* without a dash marker.  inp holds the file and nlines the number of     *)
(* lines read.                                                             *)
(***************************************************************************)

MaxQuote6 == 2

Q6_dash == <<">", " ", "q", " ", "-", "-", " ", "A">>
Q6_more == <<">", "w">>
Q6_author == <<">", " ", "u", " ", "-", "-", " ", "B">>

Quote6Lines == {L6_quote, Q6_dash, Q6_more, Q6_author, L6_text, L6_blank, L6_h2}

InitQuote6 ==
    /\ Is(NewConverter)
    /\ line = None
    /\ nlines = 0
    /\ pc = "new_q6"
    /\ inp \in Files(Quote6Lines, MaxQuote6)
    /\ res = None

\* convert up to its loop
Quote6Begin ==
    /\ pc = "new_q6"
    /\ Becomes(Ch6_convert_begin(Self))
    /\ pc' = "run_q6"
    /\ UNCHANGED <<line, nlines, fun>>

\* one iteration of convert's loop: process_line(line)
Quote6Line ==
    /\ pc = "run_q6"
    /\ nlines < Len(inp)
    /\ Becomes(Ch6_process_line(Self, inp[nlines + 1]))
    /\ line' = inp[nlines + 1]
    /\ nlines' = nlines + 1
    /\ UNCHANGED <<pc, fun>>

\* convert after its loop
Quote6End ==
    /\ pc = "run_q6"
    /\ nlines = Len(inp)
    /\ Becomes(Ch6_convert_end(Self))
    /\ pc' = "done_q6"
    /\ UNCHANGED <<line, nlines, fun>>

NextQuote6 == Quote6Begin \/ Quote6Line \/ Quote6End

SpecQuote6 == InitQuote6 /\ [][NextQuote6]_vars

\* the number of dash markers in the quote collected: process_line has
\* written each ' -- ' of a quote line as ' <mdash/> '
DashMarkers(lines) == Count(Join(<<" ">>, lines), S6_mdash_spaced, 1)

\* the output lines of the kind tag among the lines from..to of out
LinesOfKind(out, from, to, tag) == {j \in from..to : out[j][1] = tag}

\* C24: when a collected blockquote is flushed, a quote with exactly one dash
\* marker is emitted with one <p> and one <attribution> after it, and a quote
\* with no dash marker with one <p> and no <attribution>.
C24_Attribution ==
    [][(pc = "run_q6" /\ blockquote_lines # <<>> /\ blockquote_lines' = <<>>)
       => /\ DashMarkers(blockquote_lines) = 1 =>
                \E j \in LinesOfKind(output', Len(output) + 1, Len(output') - 1, "p") :
                    output'[j + 1][1] = "attribution"
          /\ DashMarkers(blockquote_lines) = 0 =>
                /\ Cardinality(LinesOfKind(output', Len(output) + 1, Len(output'), "p")) = 1
                /\ LinesOfKind(output', Len(output) + 1, Len(output'), "attribution") = {}]_vars
(***************************************************************************)
(* Claims about the block buffers and the section stack of                 *)
(* convert_ch4_statistical_theory.RmdToPreTeXt.process_line (Spec)         *)
(***************************************************************************)

\* C25: a list-item line (bullet or numbered) read outside a fence while a
\* blockquote is active flushes the blockquote and starts a list: after the
\* call the blockquote buffer is empty, no blockquote is active and the item
\* is the one line of the list buffer.
C25_ListItemEndsQuote ==
    [][(/\ pc = "run" /\ nlines' = nlines + 1
        /\ ~in_code_block /\ in_blockquote
        /\ line' \in {L_bullet, L_numbered})
       => /\ blockquote_lines' = <<>>
          /\ ~in_blockquote'
          /\ in_list'
          /\ Len(list_lines') = 1]_vars

\* C29: after every process_line call the levels stored in section_stack are
\* strictly increasing from the bottom to the top, for headings of the levels
\* 1 to 4 in any order.
C29_StackIncreasing ==
    \A k \in 1..(Len(section_stack) - 1) :
        section_stack[k][1] < section_stack[k + 1][1]

\* C29: three nodes are open with a depth gap between them, the chapter at
\* the bottom and a subsubsection at the top, after a heading closed a node
\* of its own level
C29_Witness ==
    /\ pc = "run"
    /\ nlines = MaxLines
    /\ Len(section_stack) = 3
    /\ section_stack[1][1] = 1
    /\ section_stack[3][1] = 4
    /\ \E j \in 1..Len(output) : IsClose(output[j])
(***************************************************************************)
(* Claims about convert_ch6_bayes.RmdToPreTeXt.process_line (SpecCh6)      *)
(***************************************************************************)

\* C26: a heading line (#, ## or ###) read outside a fence flushes every
\* pending buffer and is handled as a heading, also when it follows a quote
\* line with no blank line between: after the call the blockquote, paragraph
\* and list buffers are empty, and the heading is not in the blockquote
\* buffer.
C26_HeadingEndsQuote ==
    [][(/\ pc = "run6" /\ nlines' = nlines + 1
        /\ ~in_code_block
        /\ line' \in {L6_h1, L6_h1_plain, L6_h2, L6_h3})
       => /\ blockquote_lines' = <<>>
          /\ paragraph_lines' = <<>>
          /\ list_lines' = <<>>
          /\ ~in_blockquote']_vars
(***************************************************************************)
(* add_r_outputs.py: add_outputs_to_ptx.  The file is the sequence of its  *)
(* lines, content.split('\n'); outputs is a sequence of records with the   *)
(* fields code and output, both texts.  Indices count from 1.              *)
(***************************************************************************)

S_program_open ==
    <<"<", "p", "r", "o", "g", "r", "a", "m", " ", "l", "a", "n", "g", "u",
      "a", "g", "e", "=", "\"", "r", "\"", ">">>
S_program_close == <<"<", "/", "p", "r", "o", "g", "r", "a", "m", ">">>
S_console == <<"<", "c", "o", "n", "s", "o", "l", "e", ">">>
S_input_open ==
    <<"<", "i", "n", "p", "u", "t", ">", "<", "!", "[", "C", "D", "A", "T",
      "A", "[">>
S_input_close == <<"]", "]", ">", "<", "/", "i", "n", "p", "u", "t", ">">>
S_console_line ==
    <<" ", " ", " ", " ", "<", "c", "o", "n", "s", "o", "l", "e", ">">>
S_output_line ==
    <<" ", " ", " ", " ", " ", " ", "<", "o", "u", "t", "p", "u", "t", ">",
      "<", "!", "[", "C", "D", "A", "T", "A", "[">>
S_output_end_line ==
    <<"]", "]", ">", "<", "/", "o", "u", "t", "p", "u", "t", ">">>
S_console_end_line ==
    <<" ", " ", " ", " ", "<", "/", "c", "o", "n", "s", "o", "l", "e", ">">>

\* the greatest element of a set of indices, 0 when the set is empty
Greatest(S) == IF S = {} THEN 0 ELSE CHOOSE j \in S : \A k \in S : k <= j

\* str.split(): the words of t, a the text without its leading whitespace
\* and k the first whitespace character of a
RECURSIVE Words(_)
WordsAt(a, k) ==
    IF a = <<>> THEN <<>>
    ELSE IF k = 0 THEN <<a>>
    ELSE <<SubSeq(a, 1, k - 1)>> \o Words(From(a, k))

Words(t) == WordsAt(LStrip(t), FindIn(LStrip(t), WhiteSpace, 1))

\* lines 87-88: ' '.join(code.split())
Normalized(code) == Join(<<" ">>, Words(code))

\* a in b, for texts
TextIn(a, b) == a = <<>> \/ Contains(b, a)

\* lines 66-74: the line where the search back from the line i stops, 0 when
\* no line before i holds the opening tag
Ptx_program_start(lines, i) ==
    Greatest({j \in 1..(i - 1) : Contains(lines[j], S_program_open)})

\* lines 67-77: program_text, j the line the search stopped at
Ptx_program_text(lines, i, j) ==
    IF j = 0 THEN <<>> ELSE Join(<<"\n">>, SubSeq(lines, j, i))

\* group 1 of the match whose opening starts at a and whose closing starts
\* at b, None when there is no match
Ptx_code_group(t, a, b) ==
    IF a > 0 /\ b > 0 THEN SubSeq(t, a + Len(S_input_open), b - 1) ELSE None

\* the closing of the match, a the first place the opening stands at
Ptx_code_close(t, a) ==
    IF a > 0 THEN Find(t, S_input_close, a + Len(S_input_open)) ELSE 0

\* line 80: re.search(r'<input><!\[CDATA\[(.*?)\]\]></input>', program_text,
\* re.DOTALL), group 1 or None
Ptx_code_match(t) ==
    Ptx_code_group(t, Find(t, S_input_open, 1),
                   Ptx_code_close(t, Find(t, S_input_open, 1)))

\* line 90, on the two normalized codes
Ptx_codes_match(output_code_normalized, r_code_normalized) ==
    \/ TextIn(output_code_normalized, r_code_normalized)
    \/ TextIn(r_code_normalized, output_code_normalized)

\* the last pair that matches, in place of the first
Ptx_find_output_last(outputs, r_code) ==
    Greatest({n \in 1..Len(outputs) :
                 Ptx_codes_match(Normalized(outputs[n].code), Normalized(r_code))})

\* lines 85-90: the index of the first pair the loop stops at, 0 when it
\* runs to its end
Ptx_find_output(outputs, r_code) ==
    First({n \in 1..Len(outputs) :
              Ptx_codes_match(Normalized(outputs[n].code), Normalized(r_code))})

\* lines 92-94: the first line after the line i that is not blank, 0 when
\* there is none
Ptx_next_line(lines, i) ==
    First({k \in (i + 1)..Len(lines) : Strip(lines[k]) # <<>>})

\* the test of line 96 left out: no output is taken as present
Ptx_has_console_never(lines, k) == FALSE

\* line 96: k < len(lines) and '<console>' in lines[k]
Ptx_has_console(lines, k) == k > 0 /\ Contains(lines[k], S_console)

\* lines 101-105
Ptx_console_lines(output_text) ==
    <<S_console_line, S_output_line, output_text, S_output_end_line,
      S_console_end_line>>

\* lines 85-106: what the loop over the pairs appends, n the pair it stops at
Ptx_add_output(lines, i, outputs, n) ==
    IF n = 0 \/ Ptx_has_console(lines, Ptx_next_line(lines, i)) THEN <<>>
    ELSE Ptx_console_lines(outputs[n].output)

\* lines 80-106: what is appended for the code matched, None when the
\* pattern does not match
Ptx_add_for_code(lines, i, outputs, group) ==
    IF group = None THEN <<>>
    ELSE Ptx_add_output(lines, i, outputs, Ptx_find_output(outputs, Strip(group)))

\* lines 63-106: what is appended after the line i
Ptx_after_line(lines, i, outputs) ==
    IF Strip(lines[i]) = S_program_close
    THEN Ptx_add_for_code(lines, i, outputs,
             Ptx_code_match(Ptx_program_text(lines, i, Ptx_program_start(lines, i))))
    ELSE <<>>

\* lines 59-108: one iteration of the loop, for the line i
Ptx_loop_body(lines, i, outputs) == <<lines[i]>> \o Ptx_after_line(lines, i, outputs)

\* lines 111-112 and then 52-55: '\n'.join(new_lines) is written, and what a
\* later call reads is content.split('\n'), each line of new_lines split at
\* its newlines
RECURSIVE Ptx_reread(_)
Ptx_reread(new_lines) ==
    IF new_lines = <<>> THEN <<>>
    ELSE Split(new_lines[1], "\n") \o Ptx_reread(Tail(new_lines))
(***************************************************************************)
(* SpecPtx: add_outputs_to_ptx applied to a file, and then to the file it  *)
(* wrote, with the same pairs.  The file is made of at most MaxItems       *)
(* items, outputs holds at most MaxPairs pairs.  inp = <<lines, outputs>>  *)
(* is what the call read, nlines the number of lines the loop has          *)
(* handled, res is new_lines, and pc tells the call.                       *)
(***************************************************************************)

MaxItems == 3
MaxPairs == 2

\* a program block as convert_ch4_statistical_theory writes it
PtxProgram1 ==
    <<<<" ", " ">> \o S_program_open,
      S_input_open \o <<"b">> \o S_input_close,
      <<" ", " ">> \o S_program_close>>

\* a program block as convert_ch6_bayes and convert_ch_regression write it
PtxProgram5 ==
    <<<<" ", " ">> \o S_program_open,
      <<" ", " ">> \o S_input_open,
      <<"a", " ", "b">>,
      S_input_close,
      <<" ", " ">> \o S_program_close>>

\* an output block that is in the file already
PtxConsole == <<S_console, <<"<", "/", "c", "o", "n", "s", "o", "l", "e", ">">> >>

PtxBlank == << <<>> >>

PtxItems == {PtxProgram1, PtxProgram5, PtxConsole, PtxBlank}

PtxPairs ==
    {[code |-> <<"a">>, output |-> <<"#", "#", " ", "1">>],
     [code |-> <<"a", " ", " ", "b">>,
      output |-> <<"#", "#", " ", "2", "\n", "#", "#", " ", "3">>],
     [code |-> <<"c">>, output |-> <<"#", "#", " ", "4">>]}

InitPtx ==
    /\ Is(NewConverter)
    /\ line = None
    /\ nlines = 0
    /\ pc = "pass1"
    /\ inp \in {<<Concat(items), outputs>> :
                   items \in Files(PtxItems, MaxItems),
                   outputs \in Files(PtxPairs, MaxPairs)}
    /\ res = <<>>

\* one iteration of the loop of lines 59-108
PtxLine ==
    /\ pc \in {"pass1", "pass2"}
    /\ nlines < Len(inp[1])
    /\ res' = res \o Ptx_loop_body(inp[1], nlines + 1, inp[2])
    /\ nlines' = nlines + 1
    /\ UNCHANGED <<conv, line, pc, inp>>

\* the first call writes the file, and the second call reads it
PtxWrite ==
    /\ pc = "pass1"
    /\ nlines = Len(inp[1])
    /\ inp' = <<Ptx_reread(res), inp[2]>>
    /\ res' = <<>>
    /\ nlines' = 0
    /\ pc' = "pass2"
    /\ UNCHANGED <<conv, line>>

\* the second call writes the file
PtxDone ==
    /\ pc = "pass2"
    /\ nlines = Len(inp[1])
    /\ pc' = "done_ptx"
    /\ UNCHANGED <<conv, line, nlines, inp, res>>

NextPtx == PtxLine \/ PtxWrite \/ PtxDone

SpecPtx == InitPtx /\ [][NextPtx]_vars
\* the line the loop is at is the closing tag of a program block
AtProgramClose ==
    /\ pc \in {"pass1", "pass2"}
    /\ nlines < Len(inp[1])
    /\ nlines' = nlines + 1
    /\ Strip(inp[1][nlines + 1]) = S_program_close

\* the next line of the file that is not blank opens a console block
ConsoleFollows ==
    \E k \in (nlines + 2)..Len(inp[1]) :
        /\ Contains(inp[1][k], S_console)
        /\ \A j \in (nlines + 2)..(k - 1) : Strip(inp[1][j]) = <<>>

\* what the iteration appended after the line itself
AddedLines == SubSeq(res', Len(res) + 2, Len(res'))

\* C27: a program block whose next non-blank line opens a console block gets
\* no further console block, and the second call, made with the same pairs
\* on the file the first call wrote, writes that file again unchanged.
C27_OutputKept ==
    [][/\ (AtProgramClose /\ ConsoleFollows) => res' = Append(res, inp[1][nlines + 1])
       /\ pc' = "done_ptx" => Ptx_reread(res') = inp'[1]]_vars

\* C27: the second call has ended on a file in which the first call put a
\* console block, with an output of two lines, after a program block, and
\* which held a console block before: what it wrote is what it read
C27_Witness ==
    /\ pc = "done_ptx"
    /\ \E k \in 1..(Len(inp[1]) - 1) :
          /\ Strip(inp[1][k]) = S_program_close
          /\ inp[1][k + 1] = S_console_line
    /\ \E k \in 1..Len(inp[1]) : inp[1][k] = <<"#", "#", " ", "3">>
    /\ \E k \in 1..Len(inp[1]) : inp[1][k] = S_console
    /\ Ptx_reread(res) = inp[1]

\* the source of the program block that the line i closes: the text between
\* the CDATA markers of the lines after the nearest opening tag
BlockSource(lines, i) ==
    Strip(Replace(Replace(Join(<<"\n">>,
                               SubSeq(lines, Ptx_program_start(lines, i) + 1, i - 1)),
                          S_input_open, <<>>),
                  S_input_close, <<>>))

\* the code of the pair, whitespace-normalized, equals, contains or is
\* contained in the normalized source
PairMatches(pair, source) ==
    \/ Normalized(pair.code) = Normalized(source)
    \/ Contains(Normalized(pair.code), Normalized(source))
    \/ Contains(Normalized(source), Normalized(pair.code))

\* the pairs that match the block the line i closes, by their place in the
\* list
MatchingPairs(lines, i, outputs) ==
    {n \in 1..Len(outputs) : PairMatches(outputs[n], BlockSource(lines, i))}

\* C28: an iteration of the loop keeps what was written, writes the line it
\* is at and inserts lines only after the closing tag of a program block that
\* a pair matches and that no console block follows: then it inserts exactly
\* one console block, with the output of the first pair, in list order, that
\* matches the block's source.  A block that no pair matches gets nothing.
C28_OnlyInserts ==
    [][(pc \in {"pass1", "pass2"} /\ nlines' = nlines + 1)
       => /\ SubSeq(res', 1, Len(res) + 1) = Append(res, inp[1][nlines + 1])
          /\ AddedLines =
                IF /\ AtProgramClose
                   /\ MatchingPairs(inp[1], nlines + 1, inp[2]) # {}
                   /\ ~ConsoleFollows
                THEN Ptx_console_lines(
                         inp[2][First(MatchingPairs(inp[1], nlines + 1, inp[2]))].output)
                ELSE <<>>]_vars

\* C28: two pairs with different outputs match the block that was closed, and
\* the console block written after the closing tag holds the output of the
\* first of them
C28_Witness ==
    /\ pc = "pass1"
    /\ nlines >= 5
    /\ Strip(inp[1][nlines]) = S_program_close
    /\ MatchingPairs(inp[1], nlines, inp[2]) = {1, 2}
    /\ inp[2][1].output # inp[2][2].output
    /\ Len(res) >= 6
    /\ SubSeq(res, Len(res) - 5, Len(res))
           = <<inp[1][nlines]>> \o Ptx_console_lines(inp[2][1].output)
(***************************************************************************)
(* Claims about the pending buffers of convert_ch4_statistical_theory      *)
(* (Spec)                                                                  *)
(***************************************************************************)

\* the four pending buffers of the object
Buffers == <<paragraph_lines, list_lines, blockquote_lines, code_block_lines>>

Reg_flush_paragraph(s) ==
    IF s.paragraph_lines # <<>>
    THEN [Emit(s, << <<"p", Reg_convert_inline_formatting(
                                Join(<<" ">>, s.paragraph_lines), TRUE)>> >>)
             EXCEPT !.paragraph_lines = <<>>, !.in_paragraph = FALSE]
    ELSE s

\* flush_blockquote, lines 132-147: parts is the content split at the dash
\* marker it holds; no attribution line is written
Reg_emit_blockquote(s, content, parts) ==
    [Emit(s, << <<"lit", "<blockquote>">>,
                <<"p", IF Len(parts) = 2 THEN Strip(parts[1]) ELSE content>>,
                <<"lit", "</blockquote>">> >>)
        EXCEPT !.blockquote_lines = <<>>, !.in_blockquote = FALSE]

\* flush_blockquote, lines 128-147: content is the formatted quote
Reg_format_blockquote(s, content) ==
    Reg_emit_blockquote(s, content,
        IF Contains(content, S_dashes) THEN SplitOn(content, S_dashes)
        ELSE IF Contains(content, S6_mdash_spaced) THEN SplitOn(content, S6_mdash_spaced)
        ELSE <<content>>)

\* RmdToPreTeXt.flush_blockquote
Reg_flush_blockquote(s) ==
    IF s.blockquote_lines # <<>>
    THEN Reg_format_blockquote(s, Reg_convert_inline_formatting(
                                      Join(<<" ">>, s.blockquote_lines), TRUE))
    ELSE s

\* lines 160-162: the items of the list, formatted
Reg_ListItems(items) ==
    [k \in 1..Len(items) |-> <<"li", Reg_convert_inline_formatting(items[k], TRUE)>>]

\* RmdToPreTeXt.flush_list
Reg_flush_list(s) ==
    IF s.list_lines = <<>> THEN s
    ELSE [Emit(s, << <<"open", Ch6_ListTag(s)>> >> \o Reg_ListItems(s.list_lines)
                      \o << <<"close", Ch6_ListTag(s)>> >>)
             EXCEPT !.list_lines = <<>>, !.in_list = FALSE, !.list_type = NoListType]

\* flush_code_block, lines 172-189: the lines of the block
Reg_code_lines(is_output, code_content) ==
    IF is_output
    THEN << <<"lit", "<pre><![CDATA[">>, <<"text", code_content>>, <<"lit", "]]></pre>">> >>
    ELSE << <<"lit", "<program language=\"r\">">>,
            <<"lit", "<input><![CDATA[">>,
            <<"text", code_content>>,
            <<"lit", "]]></input>">>,
            <<"lit", "</program>">> >>

\* RmdToPreTeXt.flush_code_block; a value of the dict is true when it is not
\* the empty string
Reg_flush_code_block(s) ==
    IF s.code_block_lines # <<>>
    THEN [Emit(s, Reg_code_lines(DictGet(s.code_block_params, K_output, <<>>) # <<>>,
                                 Join(<<"\n">>, s.code_block_lines)))
             EXCEPT !.code_block_lines = <<>>, !.in_code_block = FALSE,
                    !.code_block_params = EmptyDict]
    ELSE s

\* the three flushes in the order of lines 200-202, 217-219, 251-253
Reg_FlushBlocks(s) == Reg_flush_list(Reg_flush_blockquote(Reg_flush_paragraph(s)))

\* lines 231-236: a line that starts with '> '
Reg_begin_quote(s, ln) ==
    [s EXCEPT !.in_blockquote = TRUE,
              !.blockquote_lines = Append(@, Strip(From(ln, 2)))]

\* lines 238-244: a line that is not blank, while a quote is open
Reg_continue_quote(s, ln) ==
    [s EXCEPT !.blockquote_lines =
         Append(@, IF StartsWith(ln, <<">">>) THEN Strip(From(ln, 1)) ELSE Strip(ln))]

\* lines 250-264: a line that starts with '# ', m the match
Reg_chapter_line(s, m) ==
    IF m.ok
    THEN Ch6_open_chapter(s, m.xml_id, Reg_convert_inline_formatting(Strip(m.title), TRUE))
    ELSE s

\* lines 266-295: a line that starts with '## ', m the match
Reg_section_line(s, m) ==
    IF m.ok
    THEN Ch6_open_section(Ch6_close_section(Ch6_close_subsections(s)), "section",
                          m.xml_id, Reg_convert_inline_formatting(Strip(m.title), TRUE))
    ELSE s

\* lines 297-320: a line that starts with '### ', m the match
Reg_subsection_line(s, m) ==
    IF m.ok
    THEN Ch6_open_section(Ch6_close_subsection(s), "subsection",
                          m.xml_id, Reg_convert_inline_formatting(Strip(m.title), TRUE))
    ELSE s

\* lines 324-328 and 333-337: the pending paragraph and quote are flushed
\* and the type set when no list is open
Reg_open_list(s, type) ==
    IF ~s.in_list
    THEN [Reg_flush_blockquote(Reg_flush_paragraph(s))
             EXCEPT !.in_list = TRUE, !.list_type = type]
    ELSE s

\* lines 323-339: a list item, n the length of the marker pattern's match
Reg_list_item(s, type, ln, n) ==
    [Reg_open_list(s, type) EXCEPT !.list_lines = Append(@, Strip(From(ln, n)))]

\* lines 341-345: the line joins the last item, when there is one
Reg_continue_item(s, ln) ==
    IF s.list_lines # <<>>
    THEN [s EXCEPT !.list_lines[Len(s.list_lines)] = @ \o <<" ">> \o Strip(ln)]
    ELSE s

\* lines 357-360: the line joins the paragraph; no list is flushed
Reg_add_paragraph_line(s, ln) ==
    [s EXCEPT !.in_paragraph = TRUE, !.paragraph_lines = Append(@, Strip(ln))]

\* lines 341-360: a line that is no list item
Reg_other_line(s, ln) ==
    IF s.in_list /\ Strip(ln) # <<>> /\ ~StartsWith(ln, <<" ">>)
    THEN Reg_continue_item(s, ln)
    ELSE IF s.in_list /\ Strip(ln) = <<>> THEN Reg_flush_list(s)
    ELSE IF Strip(ln) = <<>> THEN Reg_FlushBlocks(s)
    ELSE Reg_add_paragraph_line(s, ln)

\* lines 323-360: the patterns ^[-*]\s+ and ^\d+\.\s+ at the start of the line
Reg_list_or_other(s, ln) ==
    IF Ch6_bullet_len(ln) > 0 THEN Reg_list_item(s, "unordered", ln, Ch6_bullet_len(ln))
    ELSE IF Ch6_number_len(ln, Span(ln, DigitSet)) > 0
    THEN Reg_list_item(s, "ordered", ln, Ch6_number_len(ln, Span(ln, DigitSet)))
    ELSE Reg_other_line(s, ln)

\* lines 250-360: the line is no part of a quote
Reg_heading_or_list(s, ln) ==
    IF StartsWith(ln, <<"#", " ">>)
    THEN Reg_chapter_line(Reg_FlushBlocks(s), Ch6_chapter_match(ln))
    ELSE IF StartsWith(ln, <<"#", "#", " ">>)
    THEN Reg_section_line(Reg_FlushBlocks(s), Ch6_heading_match(ln, 2))
    ELSE IF StartsWith(ln, <<"#", "#", "#", " ">>)
    THEN Reg_subsection_line(Reg_FlushBlocks(s), Ch6_heading_match(ln, 3))
    ELSE Reg_list_or_other(s, ln)

\* lines 231-360: the line is no part of a code block
Reg_quote_or_other(s, ln) ==
    IF StartsWith(ln, <<">", " ">>)
    THEN Reg_begin_quote(Reg_flush_list(Reg_flush_paragraph(s)), ln)
    ELSE IF s.in_blockquote /\ Strip(ln) # <<>> THEN Reg_continue_quote(s, ln)
    ELSE IF s.in_blockquote /\ Strip(ln) = <<>> THEN Reg_flush_blockquote(s)
    ELSE Reg_heading_or_list(s, ln)

\* RmdToPreTeXt.process_line
Reg_process_line(s, ln) ==
    IF StartsWith(ln, S6_fence_r) THEN Ch6_open_r_fence(Reg_FlushBlocks(s), ln)
    ELSE IF Strip(ln) = S_fence /\ ~s.in_code_block
    THEN Ch6_open_plain_fence(Reg_FlushBlocks(s))
    ELSE IF Strip(ln) = S_fence /\ s.in_code_block THEN Reg_flush_code_block(s)
    ELSE IF s.in_code_block THEN [s EXCEPT !.code_block_lines = Append(@, ln)]
    ELSE Reg_quote_or_other(s, ln)

\* finalize, lines 370-377: while len(section_stack) > 0, pop and close
RECURSIVE Reg_close_all(_)
Reg_close_all(s) ==
    IF Len(s.section_stack) > 0
    THEN Reg_close_all(
             [s EXCEPT !.section_stack = SubSeq(@, 1, Len(@) - 1),
                       !.output =
                           IF s.section_stack[Len(s.section_stack)]
                                  \in {"subsection", "section", "chapter"}
                           THEN Append(@, <<"close", s.section_stack[Len(s.section_stack)]>>)
                           ELSE @])
    ELSE s

\* RmdToPreTeXt.finalize
Reg_finalize(s) ==
    Reg_close_all(Reg_flush_code_block(Reg_FlushBlocks(s)))
(***************************************************************************)
(* SpecRegDoc: convert_ch_regression.RmdToPreTeXt.convert on every file of *)
(* at most MaxLinesR lines.  inp holds the kind of each line; the text of  *)
(* line k carries the letter RegMark(k), so that the output element a line *)
(* ends in can be told.                                                    *)
(***************************************************************************)

MaxLinesR == 4

RegKinds ==
    {"bullet", "numbered", "indented", "text", "blank", "quote", "h1", "h2", "h3",
     "fence", "fence_r"}

\* the letter that marks line k
RegMark(k) == <<"a", "b", "c", "d", "e", "f">>[k]

\* the text of line k, of the given kind
RegLineOf(kind, k) ==
    CASE kind = "bullet" -> <<"-", " ", RegMark(k)>>
      [] kind = "numbered" -> <<"1", ".", " ", RegMark(k)>>
      [] kind = "indented" -> <<" ", RegMark(k)>>
      [] kind = "text" -> <<RegMark(k)>>
      [] kind = "blank" -> <<>>
      [] kind = "quote" -> <<">", " ", RegMark(k)>>
      [] kind = "h1" -> <<"#", " ", RegMark(k), " ", "{", "#", RegMark(k), "}">>
      [] kind = "h2" -> <<"#", "#", " ", RegMark(k)>>
      [] kind = "h3" -> <<"#", "#", "#", " ", RegMark(k)>>
      [] kind = "fence" -> S_fence
      [] kind = "fence_r" -> S6_fence_r \o <<"}">>

InitRegDoc ==
    /\ Is(NewConverter)
    /\ line = None
    /\ nlines = 0
    /\ pc = "new_rd"
    /\ inp \in Files(RegKinds, MaxLinesR)
    /\ res = None

\* convert up to its loop
RegDocBegin ==
    /\ pc = "new_rd"
    /\ Becomes(Ch6_convert_begin(Self))
    /\ pc' = "run_rd"
    /\ UNCHANGED <<line, nlines, fun>>

\* one iteration of convert's loop: process_line(line)
RegDocLine ==
    /\ pc = "run_rd"
    /\ nlines < Len(inp)
    /\ Becomes(Reg_process_line(Self, RegLineOf(inp[nlines + 1], nlines + 1)))
    /\ line' = RegLineOf(inp[nlines + 1], nlines + 1)
    /\ nlines' = nlines + 1
    /\ UNCHANGED <<pc, fun>>

\* convert after its loop: finalize()
RegDocEnd ==
    /\ pc = "run_rd"
    /\ nlines = Len(inp)
    /\ Becomes(Reg_finalize(Self))
    /\ pc' = "done_rd"
    /\ UNCHANGED <<line, nlines, fun>>

NextRegDoc == RegDocBegin \/ RegDocLine \/ RegDocEnd

SpecRegDoc == InitRegDoc /\ [][NextRegDoc]_vars

(***************************************************************************)
(* Claims about the order of the blocks of convert_ch_regression           *)
(* (SpecRegDoc)                                                            *)
(***************************************************************************)

\* the output element el is a title, paragraph or list item that holds the
\* letter m
HoldsMark(el, m) ==
    /\ el[1] \in {"title", "p", "li"}
    /\ \E k \in 1..Len(el[2]) : el[2][k] = m

\* the index of the output element that holds the text of line k, 0 when
\* there is none (a blank line, a fence, a line of a fenced block)
ElementOf(k) == First({n \in 1..Len(output) : HoldsMark(output[n], RegMark(k))})

\* the output elements p and q belong to one emitted block: they are one
\* element, or items of one list
SameBlock(p, q) ==
    \/ p = q
    \/ \A n \in 1..Len(output) : (p <= n /\ n <= q) \/ (q <= n /\ n <= p)
                                     => output[n][1] = "li"

\* C32: blocks are emitted in document order.  When convert has finished,
\* of two input lines whose texts are in different emitted blocks the
\* earlier line's block comes first in the output.
C32_DocumentOrder ==
    pc = "done_rd" =>
        \A i, j \in 1..Len(inp) :
            (/\ i < j
             /\ ElementOf(i) > 0
             /\ ElementOf(j) > 0
             /\ ~SameBlock(ElementOf(i), ElementOf(j)))
            => ElementOf(i) < ElementOf(j)
(***************************************************************************)
(* SpecFlush: the four flush methods of convert_ch4_statistical_theory     *)
(* called on the objects that process_line leaves after at most MaxFlush   *)
(* lines.  res holds the name of the flush method called last and how      *)
(* many times it has been called in a row, None after a process_line call. *)
(***************************************************************************)

MaxFlush == 3
MaxCalls == 2

InitFlush ==
    /\ Is(NewConverter)
    /\ line = None
    /\ nlines = 0
    /\ pc = "run_fl"
    /\ inp = None
    /\ res = None

\* process_line(line)
FlushLine ==
    /\ pc = "run_fl"
    /\ nlines < MaxFlush
    /\ \E ln \in Ch4Lines :
          /\ Becomes(process_line(Self, ln))
          /\ line' = ln
    /\ nlines' = nlines + 1
    /\ res' = None
    /\ UNCHANGED <<pc, inp>>

\* the method of the given name is called, as the first call after a
\* process_line or as a repetition of the last call
FlushCall(name, s) ==
    /\ pc = "run_fl"
    /\ nlines >= 1
    /\ res = None \/ (res[1] = name /\ res[2] < MaxCalls)
    /\ Becomes(s)
    /\ res' = <<name, IF res = None THEN 1 ELSE res[2] + 1>>
    /\ UNCHANGED <<pc, inp, line, nlines>>

FlushParagraph == FlushCall("flush_paragraph", flush_paragraph(Self))
FlushList == FlushCall("flush_list", flush_list(Self))
FlushBlockquote == FlushCall("flush_blockquote", flush_blockquote(Self))
FlushCodeBlock == FlushCall("flush_code_block", flush_code_block(Self))

NextFlush == FlushLine \/ FlushParagraph \/ FlushList \/ FlushBlockquote \/ FlushCodeBlock

SpecFlush == InitFlush /\ [][NextFlush]_vars

\* the buffer of the object s that the flush method of the given name empties
BufferOf(name, s) ==
    CASE name = "flush_paragraph" -> s.paragraph_lines
      [] name = "flush_list" -> s.list_lines
      [] name = "flush_blockquote" -> s.blockquote_lines
      [] name = "flush_code_block" -> s.code_block_lines

\* C33: each of flush_paragraph, flush_list, flush_blockquote and
\* flush_code_block is idempotent.  A call on an empty buffer appends
\* nothing to the output; a call on a buffer that is not empty appends its
\* block and empties the buffer; and a second call in a row leaves the
\* output, every buffer and every other field of the object as they are.
C33_FlushIdempotent ==
    [][(pc = "run_fl" /\ res' # None) =>
          /\ BufferOf(res'[1], Self) = <<>> => output' = output
          /\ BufferOf(res'[1], Self) # <<>> =>
                 /\ Len(output') > Len(output)
                 /\ SubSeq(output', 1, Len(output)) = output
                 /\ BufferOf(res'[1], Self') = <<>>
          /\ res'[2] = 2 => conv' = conv]_vars

\* flush_list has been called twice in a row after a list item was read:
\* the list is in the output once
C33_Witness ==
    /\ res = <<"flush_list", 2>>
    /\ line = L_bullet
    /\ list_lines = <<>>
    /\ output = << <<"open", "ul">>, <<"li", <<"a">>>>, <<"close", "ul">> >>
(***************************************************************************)
(* SpecEsc3: convert_ch3_intro_r's convert_inline_formatting on every text *)
(* of at most MaxEsc3 pieces, a piece being an escaped dollar, a dollar, a *)
(* backtick or a letter                                                    *)
(***************************************************************************)

MaxEsc3 == 4

Esc3Chunks == {S_esc_dollar, <<"$">>, <<BT>>, <<"a">>}

InitEsc3 ==
    /\ Is(NewConverter)
    /\ line = None
    /\ nlines = 0
    /\ pc = "esc3"
    /\ inp \in ChunkStrings(Esc3Chunks, MaxEsc3)
    /\ res = None

\* text = self.convert_inline_formatting(text)
FormatEsc3 ==
    /\ pc = "esc3"
    /\ res' = Ch3_convert_inline_formatting(inp, TRUE)
    /\ pc' = "formatted_esc3"
    /\ UNCHANGED <<conv, line, nlines, inp>>

NextEsc3 == FormatEsc3

SpecEsc3 == InitEsc3 /\ [][NextEsc3]_vars

\* the text is open, then letters and escaped dollars, then close
Esc3Span(t, open, close) ==
    \E body \in ChunkStrings({S_esc_dollar, <<"a">>}, MaxEsc3 - 2) \ {<<>>} :
        t = open \o body \o close

\* the body of the span that Esc3Span finds in t
Esc3Body(t) == SubSeq(t, 2, Len(t) - 1)

\* C34: no ___LITERAL_DOLLAR___ token is left in the output, and an escaped
\* dollar inside an inline-math span or a code span comes out as a dollar
\* within that span.
C34_EscapedDollarInSpan ==
    pc = "formatted_esc3" =>
        /\ ~Contains(res, S3_LITERAL_DOLLAR)
        /\ Esc3Span(inp, <<"$">>, <<"$">>) =>
               res = S_m \o Replace(Esc3Body(inp), S_esc_dollar, <<"$">>) \o S_m_end
        /\ Esc3Span(inp, <<BT>>, <<BT>>) =>
               res = S_c \o Replace(Esc3Body(inp), S_esc_dollar, <<"$">>) \o S_c_end
(***************************************************************************)
(* SpecDoc4: convert_ch4_statistical_theory.RmdToPreTeXt.convert on every  *)
(* file of at most MaxLinesD lines.  inp holds the kind of each line; the  *)
(* text of line k carries the letter RegMark(k) once.                      *)
(***************************************************************************)

MaxLinesD == 4

Doc4Kinds ==
    {"bullet", "numbered", "text", "blank", "quote", "quote_empty", "h1", "fence",
     "fence_r"}

\* the text of line k, of the given kind
Doc4LineOf(kind, k) ==
    CASE kind = "bullet" -> <<"-", " ", RegMark(k)>>
      [] kind = "numbered" -> <<"1", ".", " ", RegMark(k)>>
      [] kind = "text" -> <<" ", RegMark(k)>>
      [] kind = "blank" -> <<>>
      [] kind = "quote" -> <<">", " ", RegMark(k)>>
      [] kind = "quote_empty" -> <<">">>
      [] kind = "h1" -> <<"#", " ", RegMark(k), " ", "{", "#", "x", "}">>
      [] kind = "fence" -> L_fence
      [] kind = "fence_r" -> L_fence \o <<"{", "r", "}">>

InitDoc4 ==
    /\ Is(NewConverter)
    /\ line = None
    /\ nlines = 0
    /\ pc = "new_d4"
    /\ inp \in Files(Doc4Kinds, MaxLinesD)
    /\ res = None

\* convert up to its loop
Doc4Begin ==
    /\ pc = "new_d4"
    /\ Becomes(convert_begin(Self))
    /\ pc' = "run_d4"
    /\ UNCHANGED <<line, nlines, fun>>

\* one iteration of convert's loop: process_line(line)
Doc4Line ==
    /\ pc = "run_d4"
    /\ nlines < Len(inp)
    /\ Becomes(process_line(Self, Doc4LineOf(inp[nlines + 1], nlines + 1)))
    /\ line' = Doc4LineOf(inp[nlines + 1], nlines + 1)
    /\ nlines' = nlines + 1
    /\ UNCHANGED <<pc, fun>>

\* convert after its loop
Doc4End ==
    /\ pc = "run_d4"
    /\ nlines = Len(inp)
    /\ Becomes(convert_end(Self))
    /\ pc' = "done_d4"
    /\ UNCHANGED <<line, nlines, fun>>

NextDoc4 == Doc4Begin \/ Doc4Line \/ Doc4End

SpecDoc4 == InitDoc4 /\ [][NextDoc4]_vars

(***************************************************************************)
(* Claims about the text convert_ch4_statistical_theory emits (SpecDoc4)   *)
(***************************************************************************)

\* the output element el holds text: a title, a paragraph, a list item or
\* the content of a fenced block
IsTextElement(el) == el[1] \in {"title", "p", "li", "input", "output"}

\* the text of the output element el, empty for a tag
TextOf(el) == IF IsTextElement(el) THEN el[2] ELSE <<>>

\* the places <<n, p>> of the output where the letter of line k stands:
\* character p of the text element n
PlacesOf(k) ==
    UNION {{<<n, p>> : p \in {c \in 1..Len(TextOf(output[n])) :
                                 TextOf(output[n])[c] = RegMark(k)}} :
           n \in 1..Len(output)}

\* the place q comes before the place r in the output
PlaceBefore(q, r) == q[1] < r[1] \/ (q[1] = r[1] /\ q[2] < r[2])

\* line k of the input carries text: it is not blank and no fence delimiter
\* (a '>' alone has no text after its marker)
CarriesText(k) == inp[k] \notin {"blank", "fence", "fence_r", "quote_empty"}

\* C35: no input text is lost or duplicated.  When convert has finished,
\* the text of every line that is not blank and no fence delimiter stands
\* at exactly one place of the output, the lines of a fence left open at the
\* end of the input included, and the places follow the order of the lines.
C35_TextEmittedOnce ==
    pc = "done_d4" =>
        /\ \A k \in 1..Len(inp) : CarriesText(k) => Cardinality(PlacesOf(k)) = 1
        /\ \A i, j \in 1..Len(inp) :
               (i < j /\ CarriesText(i) /\ CarriesText(j))
               => \A q \in PlacesOf(i), r \in PlacesOf(j) : PlaceBefore(q, r)

\* a file whose fence is left open: the paragraph, then the block with the
\* two lines that follow the fence
C35_Witness ==
    /\ pc = "done_d4"
    /\ inp = <<"text", "fence_r", "bullet", "quote">>
    /\ output[Len(output) - 1] = <<"input", <<"-", " ", "c", "\n", ">", " ", "d">>>>
    /\ output[Len(output) - 3] = <<"p", <<"a">>>>
(***************************************************************************)
(* SpecFence3: convert_ch3_intro_r.RmdToPreTeXt.convert on every file of   *)
(* at most MaxFence3 lines that are fences with parameters, plain fences   *)
(* and lines of text                                                       *)
(***************************************************************************)

MaxFence3 == 5

L3_fence_echo ==
    <<BT, BT, BT, "{", "r", " ", "e", "c", "h", "o", "=", "F", "A", "L", "S", "E", "}">>

Fence3Lines == {L3_fence, L3_fence_r, L3_fence_echo, L3_text}

InitFence3 ==
    /\ Is(NewConverter)
    /\ line = None
    /\ nlines = 0
    /\ pc = "new_f3"
    /\ inp \in Files(Fence3Lines, MaxFence3)
    /\ res = None

\* convert, lines 355-361
Fence3Begin ==
    /\ pc = "new_f3"
    /\ Becomes(Ch3_convert_begin(Self))
    /\ pc' = "run_f3"
    /\ UNCHANGED <<line, nlines, fun>>

\* convert, lines 380-493: one line of the loop
Fence3Line ==
    /\ pc = "run_f3"
    /\ nlines < Len(inp)
    /\ Becomes(Ch3_loop_body(Self, inp, nlines))
    /\ line' = RStrip(inp[nlines + 1])
    /\ nlines' = nlines + 1
    /\ UNCHANGED <<pc, fun>>

\* convert, lines 495-504
Fence3End ==
    /\ pc = "run_f3"
    /\ nlines = Len(inp)
    /\ Becomes(Ch3_convert_end(Self))
    /\ pc' = "done_f3"
    /\ UNCHANGED <<line, nlines, fun>>

NextFence3 == Fence3Begin \/ Fence3Line \/ Fence3End

SpecFence3 == InitFence3 /\ [][NextFence3]_vars

\* the fence-open line of the block the loop is in: the last fence among the
\* lines read
OwnFence ==
    inp[CHOOSE k \in 1..nlines :
            /\ StartsWith(Strip(inp[k]), S_fence)
            /\ \A j \in (k + 1)..nlines : ~StartsWith(Strip(inp[j]), S_fence)]

\* the parameters parsed from that line, none when it carries none
OwnParams == Ch3_fence_params(EmptyDict, Ch3_fence_match(OwnFence))

\* C36: a fenced block is rendered by the parameters of its own fence-open
\* line.  The step that closes a block with lines appends to the output
\* what process_code_block makes of the block's lines under the parameters
\* parsed from the line that opened it, whatever earlier blocks carried.
C36_OwnFenceParams ==
    [][(pc = "run_f3" /\ in_code_block /\ ~in_code_block' /\ code_block_lines # <<>>)
          => output' = output \o Ch3_code_block_output(OwnParams, code_block_lines,
                                                       Len(section_stack) + 1)]_vars
(***************************************************************************)
(* Claims about the nesting of convert_ch5_anova2's output (SpecCh5)       *)
(***************************************************************************)

\* the chapter, section and subsection nodes that are open, outermost first,
\* after the first n elements of out; a close tag closes the innermost one
RECURSIVE OpenNodes(_, _)
OpenNodes(out, n) ==
    IF n = 0 THEN <<>>
    ELSE IF IsOpen(out[n]) THEN Append(OpenNodes(out, n - 1), out[n][2])
    ELSE IF IsClose(out[n]) /\ OpenNodes(out, n - 1) # <<>>
    THEN SubSeq(OpenNodes(out, n - 1), 1, Len(OpenNodes(out, n - 1)) - 1)
    ELSE OpenNodes(out, n - 1)

\* element n of out is a close tag that names the innermost open node
ClosesInnermost(out, n) ==
    /\ OpenNodes(out, n - 1) # <<>>
    /\ OpenNodes(out, n - 1)[Len(OpenNodes(out, n - 1))] = out[n][2]

\* C37: the structural output is well nested.  On a file that begins with
\* the chapter heading, whatever heading lines follow, every close tag of a
\* chapter, section or subsection in the output names the innermost node
\* that is still open.
C37_WellNested ==
    (Len(inp) >= 1 /\ inp[1] = L5_chapter) =>
        \A n \in 1..Len(output) : IsClose(output[n]) => ClosesInnermost(output, n)

====
